---- MODULE Spec2Model ----
(***************************************************************************)
(* Model of the BTC vanity address search: vanity/utils.py (the workers,   *)
(* generate_matching, stop_generation, reset_stop) and vanity/views.py     *)
(* (the two endpoints).  Strings are sequences of characters.  A printable *)
(* ASCII character, tab, line feed, form feed and carriage return are the  *)
(* one-character string; every other character is the string "U+"         *)
(* followed by its code point in hexadecimal (at least four digits).       *)
(***************************************************************************)
EXTENDS Integers, Sequences, FiniteSets, TLC

\* ---------------------------------------------------------------- bounds
\* largest max_tries budget explored
MaxTries == 2
\* largest value multiprocessing.cpu_count() takes on the modelled host
MaxCpu == 2
\* longest sequence of keys chosen for os.urandom in a search with the
\* budget of the view
MaxDraws == 2

\* ------------------------------------------------------------- constants
\* views.py passes max_tries=500000
VIEW_MAX_TRIES == 500000
\* generate_matching rejects criteria longer than this
MAX_CRITERIA_LEN == 8
\* generate_matching caps the worker count
MAX_WORKERS == 4

Min(a, b) == IF a < b THEN a ELSE b
Max(a, b) == IF a > b THEN a ELSE b

\* Python None, a value that is no string
None == <<"<None>">>
\* the empty dict
EmptyDict == [k \in {} |-> None]
\* time.time() - start_time when a worker matches, in microseconds
Clock == {6000, 1234500}
\* round(x, 2), in hundredths of a second (123 is 1.23); a reading half way
\* between two hundredths goes either way, as the nearest float decides
Elapsed(us) == {(us + 4999) \div 10000, (us + 5000) \div 10000}

\* ------------------------------------------------------------ key source
\* generate_private_key(): os.urandom(32).hex(); three sample keys
K1 == "0000000000000000000000000000000000000000000000000000000000000001"
K5 == "0000000000000000000000000000000000000000000000000000000000000005"
K411 == "000000000000000000000000000000000000000000000000000000000000019b"
generate_private_key == {K1, K5, K411}

\* ---------------------------------------------------- address derivation
\* private_key_to_address(priv): the P2PKH address of the uncompressed key
private_key_to_address(priv) ==
  CASE priv = K1 -> <<"1","E","H","N","a","6","Q","4","J","z","2","u","v","N","E","x","L","4","9","7","m","E","4","3","i","k","X","h","w","F","6","k","Z","m">>
    [] priv = K5 -> <<"1","E","1","N","U","N","m","Y","w","1","G","5","c","3","F","K","N","P","d","4","3","5","Q","m","D","v","u","N","G","3","a","u","Y","k">>
    [] priv = K411 -> <<"1","1","H","W","B","m","e","5","f","Y","i","s","2","S","Z","5","P","X","L","L","5","q","E","j","9","L","3","v","x","U","V","t","Z">>

\* the derivation inlined in worker_p2sh: version byte 0x05
p2sh_address(priv) ==
  CASE priv = K1 -> <<"3","E","y","P","V","d","t","V","r","t","M","J","1","X","w","P","T","9","o","i","B","r","Q","y","s","G","p","R","Y","8","L","E","9","K">>
    [] priv = K5 -> <<"3","E","h","P","P","v","F","z","U","u","a","T","h","C","w","k","V","V","H","e","T","h","m","h","N","T","C","5","q","S","p","r","4","z">>
    [] priv = K411 -> <<"3","1","h","J","R","j","G","5","d","Z","s","6","x","C","8","z","C","V","B","v","k","i","C","A","s","f","c","m","R","C","b","G","2","w">>

LEGACY == "Legacy (1...)"
P2SH == "P2SH (3...)"

Derive(mode, priv) ==
  IF mode = LEGACY THEN private_key_to_address(priv) ELSE p2sh_address(priv)

\* ------------------------------------------------------ string functions
Lower == <<"a","b","c","d","e","f","g","h","i","j","k","l","m","n","o","p","q","r","s","t","u","v","w","x","y","z">>
UpperOf == <<"A","B","C","D","E","F","G","H","I","J","K","L","M","N","O","P","Q","R","S","T","U","V","W","X","Y","Z">>

\* the characters outside a..z that str.upper() changes, each with the
\* characters it becomes (Unicode 14.0 full case mapping)
UpperPairs ==
  <<<<"U+00B5", <<"U+039C">>>>, <<"U+00DF", <<"S", "S">>>>, <<"U+00E0", <<"U+00C0">>>>,
     <<"U+00E1", <<"U+00C1">>>>, <<"U+00E2", <<"U+00C2">>>>, <<"U+00E3", <<"U+00C3">>>>,
     <<"U+00E4", <<"U+00C4">>>>, <<"U+00E5", <<"U+00C5">>>>, <<"U+00E6", <<"U+00C6">>>>,
     <<"U+00E7", <<"U+00C7">>>>, <<"U+00E8", <<"U+00C8">>>>, <<"U+00E9", <<"U+00C9">>>>,
     <<"U+00EA", <<"U+00CA">>>>, <<"U+00EB", <<"U+00CB">>>>, <<"U+00EC", <<"U+00CC">>>>,
     <<"U+00ED", <<"U+00CD">>>>, <<"U+00EE", <<"U+00CE">>>>, <<"U+00EF", <<"U+00CF">>>>,
     <<"U+00F0", <<"U+00D0">>>>, <<"U+00F1", <<"U+00D1">>>>, <<"U+00F2", <<"U+00D2">>>>,
     <<"U+00F3", <<"U+00D3">>>>, <<"U+00F4", <<"U+00D4">>>>, <<"U+00F5", <<"U+00D5">>>>,
     <<"U+00F6", <<"U+00D6">>>>, <<"U+00F8", <<"U+00D8">>>>, <<"U+00F9", <<"U+00D9">>>>,
     <<"U+00FA", <<"U+00DA">>>>, <<"U+00FB", <<"U+00DB">>>>, <<"U+00FC", <<"U+00DC">>>>,
     <<"U+00FD", <<"U+00DD">>>>, <<"U+00FE", <<"U+00DE">>>>, <<"U+00FF", <<"U+0178">>>>,
     <<"U+0101", <<"U+0100">>>>, <<"U+0103", <<"U+0102">>>>, <<"U+0105", <<"U+0104">>>>,
     <<"U+0107", <<"U+0106">>>>, <<"U+0109", <<"U+0108">>>>, <<"U+010B", <<"U+010A">>>>,
     <<"U+010D", <<"U+010C">>>>, <<"U+010F", <<"U+010E">>>>, <<"U+0111", <<"U+0110">>>>,
     <<"U+0113", <<"U+0112">>>>, <<"U+0115", <<"U+0114">>>>, <<"U+0117", <<"U+0116">>>>,
     <<"U+0119", <<"U+0118">>>>, <<"U+011B", <<"U+011A">>>>, <<"U+011D", <<"U+011C">>>>,
     <<"U+011F", <<"U+011E">>>>, <<"U+0121", <<"U+0120">>>>, <<"U+0123", <<"U+0122">>>>,
     <<"U+0125", <<"U+0124">>>>, <<"U+0127", <<"U+0126">>>>, <<"U+0129", <<"U+0128">>>>,
     <<"U+012B", <<"U+012A">>>>, <<"U+012D", <<"U+012C">>>>, <<"U+012F", <<"U+012E">>>>,
     <<"U+0131", <<"I">>>>, <<"U+0133", <<"U+0132">>>>, <<"U+0135", <<"U+0134">>>>,
     <<"U+0137", <<"U+0136">>>>, <<"U+013A", <<"U+0139">>>>, <<"U+013C", <<"U+013B">>>>,
     <<"U+013E", <<"U+013D">>>>, <<"U+0140", <<"U+013F">>>>, <<"U+0142", <<"U+0141">>>>,
     <<"U+0144", <<"U+0143">>>>, <<"U+0146", <<"U+0145">>>>, <<"U+0148", <<"U+0147">>>>,
     <<"U+0149", <<"U+02BC", "N">>>>, <<"U+014B", <<"U+014A">>>>, <<"U+014D", <<"U+014C">>>>,
     <<"U+014F", <<"U+014E">>>>, <<"U+0151", <<"U+0150">>>>, <<"U+0153", <<"U+0152">>>>,
     <<"U+0155", <<"U+0154">>>>, <<"U+0157", <<"U+0156">>>>, <<"U+0159", <<"U+0158">>>>,
     <<"U+015B", <<"U+015A">>>>, <<"U+015D", <<"U+015C">>>>, <<"U+015F", <<"U+015E">>>>,
     <<"U+0161", <<"U+0160">>>>, <<"U+0163", <<"U+0162">>>>, <<"U+0165", <<"U+0164">>>>,
     <<"U+0167", <<"U+0166">>>>, <<"U+0169", <<"U+0168">>>>, <<"U+016B", <<"U+016A">>>>,
     <<"U+016D", <<"U+016C">>>>, <<"U+016F", <<"U+016E">>>>, <<"U+0171", <<"U+0170">>>>,
     <<"U+0173", <<"U+0172">>>>, <<"U+0175", <<"U+0174">>>>, <<"U+0177", <<"U+0176">>>>,
     <<"U+017A", <<"U+0179">>>>, <<"U+017C", <<"U+017B">>>>, <<"U+017E", <<"U+017D">>>>,
     <<"U+017F", <<"S">>>>, <<"U+0180", <<"U+0243">>>>, <<"U+0183", <<"U+0182">>>>,
     <<"U+0185", <<"U+0184">>>>, <<"U+0188", <<"U+0187">>>>, <<"U+018C", <<"U+018B">>>>,
     <<"U+0192", <<"U+0191">>>>, <<"U+0195", <<"U+01F6">>>>, <<"U+0199", <<"U+0198">>>>,
     <<"U+019A", <<"U+023D">>>>, <<"U+019E", <<"U+0220">>>>, <<"U+01A1", <<"U+01A0">>>>,
     <<"U+01A3", <<"U+01A2">>>>, <<"U+01A5", <<"U+01A4">>>>, <<"U+01A8", <<"U+01A7">>>>,
     <<"U+01AD", <<"U+01AC">>>>, <<"U+01B0", <<"U+01AF">>>>, <<"U+01B4", <<"U+01B3">>>>,
     <<"U+01B6", <<"U+01B5">>>>, <<"U+01B9", <<"U+01B8">>>>, <<"U+01BD", <<"U+01BC">>>>,
     <<"U+01BF", <<"U+01F7">>>>, <<"U+01C5", <<"U+01C4">>>>, <<"U+01C6", <<"U+01C4">>>>,
     <<"U+01C8", <<"U+01C7">>>>, <<"U+01C9", <<"U+01C7">>>>, <<"U+01CB", <<"U+01CA">>>>,
     <<"U+01CC", <<"U+01CA">>>>, <<"U+01CE", <<"U+01CD">>>>, <<"U+01D0", <<"U+01CF">>>>,
     <<"U+01D2", <<"U+01D1">>>>, <<"U+01D4", <<"U+01D3">>>>, <<"U+01D6", <<"U+01D5">>>>,
     <<"U+01D8", <<"U+01D7">>>>, <<"U+01DA", <<"U+01D9">>>>, <<"U+01DC", <<"U+01DB">>>>,
     <<"U+01DD", <<"U+018E">>>>, <<"U+01DF", <<"U+01DE">>>>, <<"U+01E1", <<"U+01E0">>>>,
     <<"U+01E3", <<"U+01E2">>>>, <<"U+01E5", <<"U+01E4">>>>, <<"U+01E7", <<"U+01E6">>>>,
     <<"U+01E9", <<"U+01E8">>>>, <<"U+01EB", <<"U+01EA">>>>, <<"U+01ED", <<"U+01EC">>>>,
     <<"U+01EF", <<"U+01EE">>>>, <<"U+01F0", <<"J", "U+030C">>>>, <<"U+01F2", <<"U+01F1">>>>,
     <<"U+01F3", <<"U+01F1">>>>, <<"U+01F5", <<"U+01F4">>>>, <<"U+01F9", <<"U+01F8">>>>,
     <<"U+01FB", <<"U+01FA">>>>, <<"U+01FD", <<"U+01FC">>>>, <<"U+01FF", <<"U+01FE">>>>,
     <<"U+0201", <<"U+0200">>>>, <<"U+0203", <<"U+0202">>>>, <<"U+0205", <<"U+0204">>>>,
     <<"U+0207", <<"U+0206">>>>, <<"U+0209", <<"U+0208">>>>, <<"U+020B", <<"U+020A">>>>,
     <<"U+020D", <<"U+020C">>>>, <<"U+020F", <<"U+020E">>>>, <<"U+0211", <<"U+0210">>>>,
     <<"U+0213", <<"U+0212">>>>, <<"U+0215", <<"U+0214">>>>, <<"U+0217", <<"U+0216">>>>,
     <<"U+0219", <<"U+0218">>>>, <<"U+021B", <<"U+021A">>>>, <<"U+021D", <<"U+021C">>>>,
     <<"U+021F", <<"U+021E">>>>, <<"U+0223", <<"U+0222">>>>, <<"U+0225", <<"U+0224">>>>,
     <<"U+0227", <<"U+0226">>>>, <<"U+0229", <<"U+0228">>>>, <<"U+022B", <<"U+022A">>>>,
     <<"U+022D", <<"U+022C">>>>, <<"U+022F", <<"U+022E">>>>, <<"U+0231", <<"U+0230">>>>,
     <<"U+0233", <<"U+0232">>>>, <<"U+023C", <<"U+023B">>>>, <<"U+023F", <<"U+2C7E">>>>,
     <<"U+0240", <<"U+2C7F">>>>, <<"U+0242", <<"U+0241">>>>, <<"U+0247", <<"U+0246">>>>,
     <<"U+0249", <<"U+0248">>>>, <<"U+024B", <<"U+024A">>>>, <<"U+024D", <<"U+024C">>>>,
     <<"U+024F", <<"U+024E">>>>, <<"U+0250", <<"U+2C6F">>>>, <<"U+0251", <<"U+2C6D">>>>,
     <<"U+0252", <<"U+2C70">>>>, <<"U+0253", <<"U+0181">>>>, <<"U+0254", <<"U+0186">>>>,
     <<"U+0256", <<"U+0189">>>>, <<"U+0257", <<"U+018A">>>>, <<"U+0259", <<"U+018F">>>>,
     <<"U+025B", <<"U+0190">>>>, <<"U+025C", <<"U+A7AB">>>>, <<"U+0260", <<"U+0193">>>>,
     <<"U+0261", <<"U+A7AC">>>>, <<"U+0263", <<"U+0194">>>>, <<"U+0265", <<"U+A78D">>>>,
     <<"U+0266", <<"U+A7AA">>>>, <<"U+0268", <<"U+0197">>>>, <<"U+0269", <<"U+0196">>>>,
     <<"U+026A", <<"U+A7AE">>>>, <<"U+026B", <<"U+2C62">>>>, <<"U+026C", <<"U+A7AD">>>>,
     <<"U+026F", <<"U+019C">>>>, <<"U+0271", <<"U+2C6E">>>>, <<"U+0272", <<"U+019D">>>>,
     <<"U+0275", <<"U+019F">>>>, <<"U+027D", <<"U+2C64">>>>, <<"U+0280", <<"U+01A6">>>>,
     <<"U+0282", <<"U+A7C5">>>>, <<"U+0283", <<"U+01A9">>>>, <<"U+0287", <<"U+A7B1">>>>,
     <<"U+0288", <<"U+01AE">>>>, <<"U+0289", <<"U+0244">>>>, <<"U+028A", <<"U+01B1">>>>,
     <<"U+028B", <<"U+01B2">>>>, <<"U+028C", <<"U+0245">>>>, <<"U+0292", <<"U+01B7">>>>,
     <<"U+029D", <<"U+A7B2">>>>, <<"U+029E", <<"U+A7B0">>>>, <<"U+0345", <<"U+0399">>>>,
     <<"U+0371", <<"U+0370">>>>, <<"U+0373", <<"U+0372">>>>, <<"U+0377", <<"U+0376">>>>,
     <<"U+037B", <<"U+03FD">>>>, <<"U+037C", <<"U+03FE">>>>, <<"U+037D", <<"U+03FF">>>>,
     <<"U+0390", <<"U+0399", "U+0308", "U+0301">>>>, <<"U+03AC", <<"U+0386">>>>,
     <<"U+03AD", <<"U+0388">>>>, <<"U+03AE", <<"U+0389">>>>, <<"U+03AF", <<"U+038A">>>>,
     <<"U+03B0", <<"U+03A5", "U+0308", "U+0301">>>>, <<"U+03B1", <<"U+0391">>>>,
     <<"U+03B2", <<"U+0392">>>>, <<"U+03B3", <<"U+0393">>>>, <<"U+03B4", <<"U+0394">>>>,
     <<"U+03B5", <<"U+0395">>>>, <<"U+03B6", <<"U+0396">>>>, <<"U+03B7", <<"U+0397">>>>,
     <<"U+03B8", <<"U+0398">>>>, <<"U+03B9", <<"U+0399">>>>, <<"U+03BA", <<"U+039A">>>>,
     <<"U+03BB", <<"U+039B">>>>, <<"U+03BC", <<"U+039C">>>>, <<"U+03BD", <<"U+039D">>>>,
     <<"U+03BE", <<"U+039E">>>>, <<"U+03BF", <<"U+039F">>>>, <<"U+03C0", <<"U+03A0">>>>,
     <<"U+03C1", <<"U+03A1">>>>, <<"U+03C2", <<"U+03A3">>>>, <<"U+03C3", <<"U+03A3">>>>,
     <<"U+03C4", <<"U+03A4">>>>, <<"U+03C5", <<"U+03A5">>>>, <<"U+03C6", <<"U+03A6">>>>,
     <<"U+03C7", <<"U+03A7">>>>, <<"U+03C8", <<"U+03A8">>>>, <<"U+03C9", <<"U+03A9">>>>,
     <<"U+03CA", <<"U+03AA">>>>, <<"U+03CB", <<"U+03AB">>>>, <<"U+03CC", <<"U+038C">>>>,
     <<"U+03CD", <<"U+038E">>>>, <<"U+03CE", <<"U+038F">>>>, <<"U+03D0", <<"U+0392">>>>,
     <<"U+03D1", <<"U+0398">>>>, <<"U+03D5", <<"U+03A6">>>>, <<"U+03D6", <<"U+03A0">>>>,
     <<"U+03D7", <<"U+03CF">>>>, <<"U+03D9", <<"U+03D8">>>>, <<"U+03DB", <<"U+03DA">>>>,
     <<"U+03DD", <<"U+03DC">>>>, <<"U+03DF", <<"U+03DE">>>>, <<"U+03E1", <<"U+03E0">>>>,
     <<"U+03E3", <<"U+03E2">>>>, <<"U+03E5", <<"U+03E4">>>>, <<"U+03E7", <<"U+03E6">>>>,
     <<"U+03E9", <<"U+03E8">>>>, <<"U+03EB", <<"U+03EA">>>>, <<"U+03ED", <<"U+03EC">>>>,
     <<"U+03EF", <<"U+03EE">>>>, <<"U+03F0", <<"U+039A">>>>, <<"U+03F1", <<"U+03A1">>>>,
     <<"U+03F2", <<"U+03F9">>>>, <<"U+03F3", <<"U+037F">>>>, <<"U+03F5", <<"U+0395">>>>,
     <<"U+03F8", <<"U+03F7">>>>, <<"U+03FB", <<"U+03FA">>>>, <<"U+0430", <<"U+0410">>>>,
     <<"U+0431", <<"U+0411">>>>, <<"U+0432", <<"U+0412">>>>, <<"U+0433", <<"U+0413">>>>,
     <<"U+0434", <<"U+0414">>>>, <<"U+0435", <<"U+0415">>>>, <<"U+0436", <<"U+0416">>>>,
     <<"U+0437", <<"U+0417">>>>, <<"U+0438", <<"U+0418">>>>, <<"U+0439", <<"U+0419">>>>,
     <<"U+043A", <<"U+041A">>>>, <<"U+043B", <<"U+041B">>>>, <<"U+043C", <<"U+041C">>>>,
     <<"U+043D", <<"U+041D">>>>, <<"U+043E", <<"U+041E">>>>, <<"U+043F", <<"U+041F">>>>,
     <<"U+0440", <<"U+0420">>>>, <<"U+0441", <<"U+0421">>>>, <<"U+0442", <<"U+0422">>>>,
     <<"U+0443", <<"U+0423">>>>, <<"U+0444", <<"U+0424">>>>, <<"U+0445", <<"U+0425">>>>,
     <<"U+0446", <<"U+0426">>>>, <<"U+0447", <<"U+0427">>>>, <<"U+0448", <<"U+0428">>>>,
     <<"U+0449", <<"U+0429">>>>, <<"U+044A", <<"U+042A">>>>, <<"U+044B", <<"U+042B">>>>,
     <<"U+044C", <<"U+042C">>>>, <<"U+044D", <<"U+042D">>>>, <<"U+044E", <<"U+042E">>>>,
     <<"U+044F", <<"U+042F">>>>, <<"U+0450", <<"U+0400">>>>, <<"U+0451", <<"U+0401">>>>,
     <<"U+0452", <<"U+0402">>>>, <<"U+0453", <<"U+0403">>>>, <<"U+0454", <<"U+0404">>>>,
     <<"U+0455", <<"U+0405">>>>, <<"U+0456", <<"U+0406">>>>, <<"U+0457", <<"U+0407">>>>,
     <<"U+0458", <<"U+0408">>>>, <<"U+0459", <<"U+0409">>>>, <<"U+045A", <<"U+040A">>>>,
     <<"U+045B", <<"U+040B">>>>, <<"U+045C", <<"U+040C">>>>, <<"U+045D", <<"U+040D">>>>,
     <<"U+045E", <<"U+040E">>>>, <<"U+045F", <<"U+040F">>>>, <<"U+0461", <<"U+0460">>>>,
     <<"U+0463", <<"U+0462">>>>, <<"U+0465", <<"U+0464">>>>, <<"U+0467", <<"U+0466">>>>,
     <<"U+0469", <<"U+0468">>>>, <<"U+046B", <<"U+046A">>>>, <<"U+046D", <<"U+046C">>>>,
     <<"U+046F", <<"U+046E">>>>, <<"U+0471", <<"U+0470">>>>, <<"U+0473", <<"U+0472">>>>,
     <<"U+0475", <<"U+0474">>>>, <<"U+0477", <<"U+0476">>>>, <<"U+0479", <<"U+0478">>>>,
     <<"U+047B", <<"U+047A">>>>, <<"U+047D", <<"U+047C">>>>, <<"U+047F", <<"U+047E">>>>,
     <<"U+0481", <<"U+0480">>>>, <<"U+048B", <<"U+048A">>>>, <<"U+048D", <<"U+048C">>>>,
     <<"U+048F", <<"U+048E">>>>, <<"U+0491", <<"U+0490">>>>, <<"U+0493", <<"U+0492">>>>,
     <<"U+0495", <<"U+0494">>>>, <<"U+0497", <<"U+0496">>>>, <<"U+0499", <<"U+0498">>>>,
     <<"U+049B", <<"U+049A">>>>, <<"U+049D", <<"U+049C">>>>, <<"U+049F", <<"U+049E">>>>,
     <<"U+04A1", <<"U+04A0">>>>, <<"U+04A3", <<"U+04A2">>>>, <<"U+04A5", <<"U+04A4">>>>,
     <<"U+04A7", <<"U+04A6">>>>, <<"U+04A9", <<"U+04A8">>>>, <<"U+04AB", <<"U+04AA">>>>,
     <<"U+04AD", <<"U+04AC">>>>, <<"U+04AF", <<"U+04AE">>>>, <<"U+04B1", <<"U+04B0">>>>,
     <<"U+04B3", <<"U+04B2">>>>, <<"U+04B5", <<"U+04B4">>>>, <<"U+04B7", <<"U+04B6">>>>,
     <<"U+04B9", <<"U+04B8">>>>, <<"U+04BB", <<"U+04BA">>>>, <<"U+04BD", <<"U+04BC">>>>,
     <<"U+04BF", <<"U+04BE">>>>, <<"U+04C2", <<"U+04C1">>>>, <<"U+04C4", <<"U+04C3">>>>,
     <<"U+04C6", <<"U+04C5">>>>, <<"U+04C8", <<"U+04C7">>>>, <<"U+04CA", <<"U+04C9">>>>,
     <<"U+04CC", <<"U+04CB">>>>, <<"U+04CE", <<"U+04CD">>>>, <<"U+04CF", <<"U+04C0">>>>,
     <<"U+04D1", <<"U+04D0">>>>, <<"U+04D3", <<"U+04D2">>>>, <<"U+04D5", <<"U+04D4">>>>,
     <<"U+04D7", <<"U+04D6">>>>, <<"U+04D9", <<"U+04D8">>>>, <<"U+04DB", <<"U+04DA">>>>,
     <<"U+04DD", <<"U+04DC">>>>, <<"U+04DF", <<"U+04DE">>>>, <<"U+04E1", <<"U+04E0">>>>,
     <<"U+04E3", <<"U+04E2">>>>, <<"U+04E5", <<"U+04E4">>>>, <<"U+04E7", <<"U+04E6">>>>,
     <<"U+04E9", <<"U+04E8">>>>, <<"U+04EB", <<"U+04EA">>>>, <<"U+04ED", <<"U+04EC">>>>,
     <<"U+04EF", <<"U+04EE">>>>, <<"U+04F1", <<"U+04F0">>>>, <<"U+04F3", <<"U+04F2">>>>,
     <<"U+04F5", <<"U+04F4">>>>, <<"U+04F7", <<"U+04F6">>>>, <<"U+04F9", <<"U+04F8">>>>,
     <<"U+04FB", <<"U+04FA">>>>, <<"U+04FD", <<"U+04FC">>>>, <<"U+04FF", <<"U+04FE">>>>,
     <<"U+0501", <<"U+0500">>>>, <<"U+0503", <<"U+0502">>>>, <<"U+0505", <<"U+0504">>>>,
     <<"U+0507", <<"U+0506">>>>, <<"U+0509", <<"U+0508">>>>, <<"U+050B", <<"U+050A">>>>,
     <<"U+050D", <<"U+050C">>>>, <<"U+050F", <<"U+050E">>>>, <<"U+0511", <<"U+0510">>>>,
     <<"U+0513", <<"U+0512">>>>, <<"U+0515", <<"U+0514">>>>, <<"U+0517", <<"U+0516">>>>,
     <<"U+0519", <<"U+0518">>>>, <<"U+051B", <<"U+051A">>>>, <<"U+051D", <<"U+051C">>>>,
     <<"U+051F", <<"U+051E">>>>, <<"U+0521", <<"U+0520">>>>, <<"U+0523", <<"U+0522">>>>,
     <<"U+0525", <<"U+0524">>>>, <<"U+0527", <<"U+0526">>>>, <<"U+0529", <<"U+0528">>>>,
     <<"U+052B", <<"U+052A">>>>, <<"U+052D", <<"U+052C">>>>, <<"U+052F", <<"U+052E">>>>,
     <<"U+0561", <<"U+0531">>>>, <<"U+0562", <<"U+0532">>>>, <<"U+0563", <<"U+0533">>>>,
     <<"U+0564", <<"U+0534">>>>, <<"U+0565", <<"U+0535">>>>, <<"U+0566", <<"U+0536">>>>,
     <<"U+0567", <<"U+0537">>>>, <<"U+0568", <<"U+0538">>>>, <<"U+0569", <<"U+0539">>>>,
     <<"U+056A", <<"U+053A">>>>, <<"U+056B", <<"U+053B">>>>, <<"U+056C", <<"U+053C">>>>,
     <<"U+056D", <<"U+053D">>>>, <<"U+056E", <<"U+053E">>>>, <<"U+056F", <<"U+053F">>>>,
     <<"U+0570", <<"U+0540">>>>, <<"U+0571", <<"U+0541">>>>, <<"U+0572", <<"U+0542">>>>,
     <<"U+0573", <<"U+0543">>>>, <<"U+0574", <<"U+0544">>>>, <<"U+0575", <<"U+0545">>>>,
     <<"U+0576", <<"U+0546">>>>, <<"U+0577", <<"U+0547">>>>, <<"U+0578", <<"U+0548">>>>,
     <<"U+0579", <<"U+0549">>>>, <<"U+057A", <<"U+054A">>>>, <<"U+057B", <<"U+054B">>>>,
     <<"U+057C", <<"U+054C">>>>, <<"U+057D", <<"U+054D">>>>, <<"U+057E", <<"U+054E">>>>,
     <<"U+057F", <<"U+054F">>>>, <<"U+0580", <<"U+0550">>>>, <<"U+0581", <<"U+0551">>>>,
     <<"U+0582", <<"U+0552">>>>, <<"U+0583", <<"U+0553">>>>, <<"U+0584", <<"U+0554">>>>,
     <<"U+0585", <<"U+0555">>>>, <<"U+0586", <<"U+0556">>>>, <<"U+0587", <<"U+0535", "U+0552">>>>,
     <<"U+10D0", <<"U+1C90">>>>, <<"U+10D1", <<"U+1C91">>>>, <<"U+10D2", <<"U+1C92">>>>,
     <<"U+10D3", <<"U+1C93">>>>, <<"U+10D4", <<"U+1C94">>>>, <<"U+10D5", <<"U+1C95">>>>,
     <<"U+10D6", <<"U+1C96">>>>, <<"U+10D7", <<"U+1C97">>>>, <<"U+10D8", <<"U+1C98">>>>,
     <<"U+10D9", <<"U+1C99">>>>, <<"U+10DA", <<"U+1C9A">>>>, <<"U+10DB", <<"U+1C9B">>>>,
     <<"U+10DC", <<"U+1C9C">>>>, <<"U+10DD", <<"U+1C9D">>>>, <<"U+10DE", <<"U+1C9E">>>>,
     <<"U+10DF", <<"U+1C9F">>>>, <<"U+10E0", <<"U+1CA0">>>>, <<"U+10E1", <<"U+1CA1">>>>,
     <<"U+10E2", <<"U+1CA2">>>>, <<"U+10E3", <<"U+1CA3">>>>, <<"U+10E4", <<"U+1CA4">>>>,
     <<"U+10E5", <<"U+1CA5">>>>, <<"U+10E6", <<"U+1CA6">>>>, <<"U+10E7", <<"U+1CA7">>>>,
     <<"U+10E8", <<"U+1CA8">>>>, <<"U+10E9", <<"U+1CA9">>>>, <<"U+10EA", <<"U+1CAA">>>>,
     <<"U+10EB", <<"U+1CAB">>>>, <<"U+10EC", <<"U+1CAC">>>>, <<"U+10ED", <<"U+1CAD">>>>,
     <<"U+10EE", <<"U+1CAE">>>>, <<"U+10EF", <<"U+1CAF">>>>, <<"U+10F0", <<"U+1CB0">>>>,
     <<"U+10F1", <<"U+1CB1">>>>, <<"U+10F2", <<"U+1CB2">>>>, <<"U+10F3", <<"U+1CB3">>>>,
     <<"U+10F4", <<"U+1CB4">>>>, <<"U+10F5", <<"U+1CB5">>>>, <<"U+10F6", <<"U+1CB6">>>>,
     <<"U+10F7", <<"U+1CB7">>>>, <<"U+10F8", <<"U+1CB8">>>>, <<"U+10F9", <<"U+1CB9">>>>,
     <<"U+10FA", <<"U+1CBA">>>>, <<"U+10FD", <<"U+1CBD">>>>, <<"U+10FE", <<"U+1CBE">>>>,
     <<"U+10FF", <<"U+1CBF">>>>, <<"U+13F8", <<"U+13F0">>>>, <<"U+13F9", <<"U+13F1">>>>,
     <<"U+13FA", <<"U+13F2">>>>, <<"U+13FB", <<"U+13F3">>>>, <<"U+13FC", <<"U+13F4">>>>,
     <<"U+13FD", <<"U+13F5">>>>, <<"U+1C80", <<"U+0412">>>>, <<"U+1C81", <<"U+0414">>>>,
     <<"U+1C82", <<"U+041E">>>>, <<"U+1C83", <<"U+0421">>>>, <<"U+1C84", <<"U+0422">>>>,
     <<"U+1C85", <<"U+0422">>>>, <<"U+1C86", <<"U+042A">>>>, <<"U+1C87", <<"U+0462">>>>,
     <<"U+1C88", <<"U+A64A">>>>, <<"U+1D79", <<"U+A77D">>>>, <<"U+1D7D", <<"U+2C63">>>>,
     <<"U+1D8E", <<"U+A7C6">>>>, <<"U+1E01", <<"U+1E00">>>>, <<"U+1E03", <<"U+1E02">>>>,
     <<"U+1E05", <<"U+1E04">>>>, <<"U+1E07", <<"U+1E06">>>>, <<"U+1E09", <<"U+1E08">>>>,
     <<"U+1E0B", <<"U+1E0A">>>>, <<"U+1E0D", <<"U+1E0C">>>>, <<"U+1E0F", <<"U+1E0E">>>>,
     <<"U+1E11", <<"U+1E10">>>>, <<"U+1E13", <<"U+1E12">>>>, <<"U+1E15", <<"U+1E14">>>>,
     <<"U+1E17", <<"U+1E16">>>>, <<"U+1E19", <<"U+1E18">>>>, <<"U+1E1B", <<"U+1E1A">>>>,
     <<"U+1E1D", <<"U+1E1C">>>>, <<"U+1E1F", <<"U+1E1E">>>>, <<"U+1E21", <<"U+1E20">>>>,
     <<"U+1E23", <<"U+1E22">>>>, <<"U+1E25", <<"U+1E24">>>>, <<"U+1E27", <<"U+1E26">>>>,
     <<"U+1E29", <<"U+1E28">>>>, <<"U+1E2B", <<"U+1E2A">>>>, <<"U+1E2D", <<"U+1E2C">>>>,
     <<"U+1E2F", <<"U+1E2E">>>>, <<"U+1E31", <<"U+1E30">>>>, <<"U+1E33", <<"U+1E32">>>>,
     <<"U+1E35", <<"U+1E34">>>>, <<"U+1E37", <<"U+1E36">>>>, <<"U+1E39", <<"U+1E38">>>>,
     <<"U+1E3B", <<"U+1E3A">>>>, <<"U+1E3D", <<"U+1E3C">>>>, <<"U+1E3F", <<"U+1E3E">>>>,
     <<"U+1E41", <<"U+1E40">>>>, <<"U+1E43", <<"U+1E42">>>>, <<"U+1E45", <<"U+1E44">>>>,
     <<"U+1E47", <<"U+1E46">>>>, <<"U+1E49", <<"U+1E48">>>>, <<"U+1E4B", <<"U+1E4A">>>>,
     <<"U+1E4D", <<"U+1E4C">>>>, <<"U+1E4F", <<"U+1E4E">>>>, <<"U+1E51", <<"U+1E50">>>>,
     <<"U+1E53", <<"U+1E52">>>>, <<"U+1E55", <<"U+1E54">>>>, <<"U+1E57", <<"U+1E56">>>>,
     <<"U+1E59", <<"U+1E58">>>>, <<"U+1E5B", <<"U+1E5A">>>>, <<"U+1E5D", <<"U+1E5C">>>>,
     <<"U+1E5F", <<"U+1E5E">>>>, <<"U+1E61", <<"U+1E60">>>>, <<"U+1E63", <<"U+1E62">>>>,
     <<"U+1E65", <<"U+1E64">>>>, <<"U+1E67", <<"U+1E66">>>>, <<"U+1E69", <<"U+1E68">>>>,
     <<"U+1E6B", <<"U+1E6A">>>>, <<"U+1E6D", <<"U+1E6C">>>>, <<"U+1E6F", <<"U+1E6E">>>>,
     <<"U+1E71", <<"U+1E70">>>>, <<"U+1E73", <<"U+1E72">>>>, <<"U+1E75", <<"U+1E74">>>>,
     <<"U+1E77", <<"U+1E76">>>>, <<"U+1E79", <<"U+1E78">>>>, <<"U+1E7B", <<"U+1E7A">>>>,
     <<"U+1E7D", <<"U+1E7C">>>>, <<"U+1E7F", <<"U+1E7E">>>>, <<"U+1E81", <<"U+1E80">>>>,
     <<"U+1E83", <<"U+1E82">>>>, <<"U+1E85", <<"U+1E84">>>>, <<"U+1E87", <<"U+1E86">>>>,
     <<"U+1E89", <<"U+1E88">>>>, <<"U+1E8B", <<"U+1E8A">>>>, <<"U+1E8D", <<"U+1E8C">>>>,
     <<"U+1E8F", <<"U+1E8E">>>>, <<"U+1E91", <<"U+1E90">>>>, <<"U+1E93", <<"U+1E92">>>>,
     <<"U+1E95", <<"U+1E94">>>>, <<"U+1E96", <<"H", "U+0331">>>>, <<"U+1E97", <<"T", "U+0308">>>>,
     <<"U+1E98", <<"W", "U+030A">>>>, <<"U+1E99", <<"Y", "U+030A">>>>,
     <<"U+1E9A", <<"A", "U+02BE">>>>, <<"U+1E9B", <<"U+1E60">>>>, <<"U+1EA1", <<"U+1EA0">>>>,
     <<"U+1EA3", <<"U+1EA2">>>>, <<"U+1EA5", <<"U+1EA4">>>>, <<"U+1EA7", <<"U+1EA6">>>>,
     <<"U+1EA9", <<"U+1EA8">>>>, <<"U+1EAB", <<"U+1EAA">>>>, <<"U+1EAD", <<"U+1EAC">>>>,
     <<"U+1EAF", <<"U+1EAE">>>>, <<"U+1EB1", <<"U+1EB0">>>>, <<"U+1EB3", <<"U+1EB2">>>>,
     <<"U+1EB5", <<"U+1EB4">>>>, <<"U+1EB7", <<"U+1EB6">>>>, <<"U+1EB9", <<"U+1EB8">>>>,
     <<"U+1EBB", <<"U+1EBA">>>>, <<"U+1EBD", <<"U+1EBC">>>>, <<"U+1EBF", <<"U+1EBE">>>>,
     <<"U+1EC1", <<"U+1EC0">>>>, <<"U+1EC3", <<"U+1EC2">>>>, <<"U+1EC5", <<"U+1EC4">>>>,
     <<"U+1EC7", <<"U+1EC6">>>>, <<"U+1EC9", <<"U+1EC8">>>>, <<"U+1ECB", <<"U+1ECA">>>>,
     <<"U+1ECD", <<"U+1ECC">>>>, <<"U+1ECF", <<"U+1ECE">>>>, <<"U+1ED1", <<"U+1ED0">>>>,
     <<"U+1ED3", <<"U+1ED2">>>>, <<"U+1ED5", <<"U+1ED4">>>>, <<"U+1ED7", <<"U+1ED6">>>>,
     <<"U+1ED9", <<"U+1ED8">>>>, <<"U+1EDB", <<"U+1EDA">>>>, <<"U+1EDD", <<"U+1EDC">>>>,
     <<"U+1EDF", <<"U+1EDE">>>>, <<"U+1EE1", <<"U+1EE0">>>>, <<"U+1EE3", <<"U+1EE2">>>>,
     <<"U+1EE5", <<"U+1EE4">>>>, <<"U+1EE7", <<"U+1EE6">>>>, <<"U+1EE9", <<"U+1EE8">>>>,
     <<"U+1EEB", <<"U+1EEA">>>>, <<"U+1EED", <<"U+1EEC">>>>, <<"U+1EEF", <<"U+1EEE">>>>,
     <<"U+1EF1", <<"U+1EF0">>>>, <<"U+1EF3", <<"U+1EF2">>>>, <<"U+1EF5", <<"U+1EF4">>>>,
     <<"U+1EF7", <<"U+1EF6">>>>, <<"U+1EF9", <<"U+1EF8">>>>, <<"U+1EFB", <<"U+1EFA">>>>,
     <<"U+1EFD", <<"U+1EFC">>>>, <<"U+1EFF", <<"U+1EFE">>>>, <<"U+1F00", <<"U+1F08">>>>,
     <<"U+1F01", <<"U+1F09">>>>, <<"U+1F02", <<"U+1F0A">>>>, <<"U+1F03", <<"U+1F0B">>>>,
     <<"U+1F04", <<"U+1F0C">>>>, <<"U+1F05", <<"U+1F0D">>>>, <<"U+1F06", <<"U+1F0E">>>>,
     <<"U+1F07", <<"U+1F0F">>>>, <<"U+1F10", <<"U+1F18">>>>, <<"U+1F11", <<"U+1F19">>>>,
     <<"U+1F12", <<"U+1F1A">>>>, <<"U+1F13", <<"U+1F1B">>>>, <<"U+1F14", <<"U+1F1C">>>>,
     <<"U+1F15", <<"U+1F1D">>>>, <<"U+1F20", <<"U+1F28">>>>, <<"U+1F21", <<"U+1F29">>>>,
     <<"U+1F22", <<"U+1F2A">>>>, <<"U+1F23", <<"U+1F2B">>>>, <<"U+1F24", <<"U+1F2C">>>>,
     <<"U+1F25", <<"U+1F2D">>>>, <<"U+1F26", <<"U+1F2E">>>>, <<"U+1F27", <<"U+1F2F">>>>,
     <<"U+1F30", <<"U+1F38">>>>, <<"U+1F31", <<"U+1F39">>>>, <<"U+1F32", <<"U+1F3A">>>>,
     <<"U+1F33", <<"U+1F3B">>>>, <<"U+1F34", <<"U+1F3C">>>>, <<"U+1F35", <<"U+1F3D">>>>,
     <<"U+1F36", <<"U+1F3E">>>>, <<"U+1F37", <<"U+1F3F">>>>, <<"U+1F40", <<"U+1F48">>>>,
     <<"U+1F41", <<"U+1F49">>>>, <<"U+1F42", <<"U+1F4A">>>>, <<"U+1F43", <<"U+1F4B">>>>,
     <<"U+1F44", <<"U+1F4C">>>>, <<"U+1F45", <<"U+1F4D">>>>, <<"U+1F50", <<"U+03A5", "U+0313">>>>,
     <<"U+1F51", <<"U+1F59">>>>, <<"U+1F52", <<"U+03A5", "U+0313", "U+0300">>>>,
     <<"U+1F53", <<"U+1F5B">>>>, <<"U+1F54", <<"U+03A5", "U+0313", "U+0301">>>>,
     <<"U+1F55", <<"U+1F5D">>>>, <<"U+1F56", <<"U+03A5", "U+0313", "U+0342">>>>,
     <<"U+1F57", <<"U+1F5F">>>>, <<"U+1F60", <<"U+1F68">>>>, <<"U+1F61", <<"U+1F69">>>>,
     <<"U+1F62", <<"U+1F6A">>>>, <<"U+1F63", <<"U+1F6B">>>>, <<"U+1F64", <<"U+1F6C">>>>,
     <<"U+1F65", <<"U+1F6D">>>>, <<"U+1F66", <<"U+1F6E">>>>, <<"U+1F67", <<"U+1F6F">>>>,
     <<"U+1F70", <<"U+1FBA">>>>, <<"U+1F71", <<"U+1FBB">>>>, <<"U+1F72", <<"U+1FC8">>>>,
     <<"U+1F73", <<"U+1FC9">>>>, <<"U+1F74", <<"U+1FCA">>>>, <<"U+1F75", <<"U+1FCB">>>>,
     <<"U+1F76", <<"U+1FDA">>>>, <<"U+1F77", <<"U+1FDB">>>>, <<"U+1F78", <<"U+1FF8">>>>,
     <<"U+1F79", <<"U+1FF9">>>>, <<"U+1F7A", <<"U+1FEA">>>>, <<"U+1F7B", <<"U+1FEB">>>>,
     <<"U+1F7C", <<"U+1FFA">>>>, <<"U+1F7D", <<"U+1FFB">>>>, <<"U+1F80", <<"U+1F08", "U+0399">>>>,
     <<"U+1F81", <<"U+1F09", "U+0399">>>>, <<"U+1F82", <<"U+1F0A", "U+0399">>>>,
     <<"U+1F83", <<"U+1F0B", "U+0399">>>>, <<"U+1F84", <<"U+1F0C", "U+0399">>>>,
     <<"U+1F85", <<"U+1F0D", "U+0399">>>>, <<"U+1F86", <<"U+1F0E", "U+0399">>>>,
     <<"U+1F87", <<"U+1F0F", "U+0399">>>>, <<"U+1F88", <<"U+1F08", "U+0399">>>>,
     <<"U+1F89", <<"U+1F09", "U+0399">>>>, <<"U+1F8A", <<"U+1F0A", "U+0399">>>>,
     <<"U+1F8B", <<"U+1F0B", "U+0399">>>>, <<"U+1F8C", <<"U+1F0C", "U+0399">>>>,
     <<"U+1F8D", <<"U+1F0D", "U+0399">>>>, <<"U+1F8E", <<"U+1F0E", "U+0399">>>>,
     <<"U+1F8F", <<"U+1F0F", "U+0399">>>>, <<"U+1F90", <<"U+1F28", "U+0399">>>>,
     <<"U+1F91", <<"U+1F29", "U+0399">>>>, <<"U+1F92", <<"U+1F2A", "U+0399">>>>,
     <<"U+1F93", <<"U+1F2B", "U+0399">>>>, <<"U+1F94", <<"U+1F2C", "U+0399">>>>,
     <<"U+1F95", <<"U+1F2D", "U+0399">>>>, <<"U+1F96", <<"U+1F2E", "U+0399">>>>,
     <<"U+1F97", <<"U+1F2F", "U+0399">>>>, <<"U+1F98", <<"U+1F28", "U+0399">>>>,
     <<"U+1F99", <<"U+1F29", "U+0399">>>>, <<"U+1F9A", <<"U+1F2A", "U+0399">>>>,
     <<"U+1F9B", <<"U+1F2B", "U+0399">>>>, <<"U+1F9C", <<"U+1F2C", "U+0399">>>>,
     <<"U+1F9D", <<"U+1F2D", "U+0399">>>>, <<"U+1F9E", <<"U+1F2E", "U+0399">>>>,
     <<"U+1F9F", <<"U+1F2F", "U+0399">>>>, <<"U+1FA0", <<"U+1F68", "U+0399">>>>,
     <<"U+1FA1", <<"U+1F69", "U+0399">>>>, <<"U+1FA2", <<"U+1F6A", "U+0399">>>>,
     <<"U+1FA3", <<"U+1F6B", "U+0399">>>>, <<"U+1FA4", <<"U+1F6C", "U+0399">>>>,
     <<"U+1FA5", <<"U+1F6D", "U+0399">>>>, <<"U+1FA6", <<"U+1F6E", "U+0399">>>>,
     <<"U+1FA7", <<"U+1F6F", "U+0399">>>>, <<"U+1FA8", <<"U+1F68", "U+0399">>>>,
     <<"U+1FA9", <<"U+1F69", "U+0399">>>>, <<"U+1FAA", <<"U+1F6A", "U+0399">>>>,
     <<"U+1FAB", <<"U+1F6B", "U+0399">>>>, <<"U+1FAC", <<"U+1F6C", "U+0399">>>>,
     <<"U+1FAD", <<"U+1F6D", "U+0399">>>>, <<"U+1FAE", <<"U+1F6E", "U+0399">>>>,
     <<"U+1FAF", <<"U+1F6F", "U+0399">>>>, <<"U+1FB0", <<"U+1FB8">>>>, <<"U+1FB1", <<"U+1FB9">>>>,
     <<"U+1FB2", <<"U+1FBA", "U+0399">>>>, <<"U+1FB3", <<"U+0391", "U+0399">>>>,
     <<"U+1FB4", <<"U+0386", "U+0399">>>>, <<"U+1FB6", <<"U+0391", "U+0342">>>>,
     <<"U+1FB7", <<"U+0391", "U+0342", "U+0399">>>>, <<"U+1FBC", <<"U+0391", "U+0399">>>>,
     <<"U+1FBE", <<"U+0399">>>>, <<"U+1FC2", <<"U+1FCA", "U+0399">>>>,
     <<"U+1FC3", <<"U+0397", "U+0399">>>>, <<"U+1FC4", <<"U+0389", "U+0399">>>>,
     <<"U+1FC6", <<"U+0397", "U+0342">>>>, <<"U+1FC7", <<"U+0397", "U+0342", "U+0399">>>>,
     <<"U+1FCC", <<"U+0397", "U+0399">>>>, <<"U+1FD0", <<"U+1FD8">>>>, <<"U+1FD1", <<"U+1FD9">>>>,
     <<"U+1FD2", <<"U+0399", "U+0308", "U+0300">>>>, <<"U+1FD3", <<"U+0399", "U+0308", "U+0301">>>>,
     <<"U+1FD6", <<"U+0399", "U+0342">>>>, <<"U+1FD7", <<"U+0399", "U+0308", "U+0342">>>>,
     <<"U+1FE0", <<"U+1FE8">>>>, <<"U+1FE1", <<"U+1FE9">>>>,
     <<"U+1FE2", <<"U+03A5", "U+0308", "U+0300">>>>, <<"U+1FE3", <<"U+03A5", "U+0308", "U+0301">>>>,
     <<"U+1FE4", <<"U+03A1", "U+0313">>>>, <<"U+1FE5", <<"U+1FEC">>>>,
     <<"U+1FE6", <<"U+03A5", "U+0342">>>>, <<"U+1FE7", <<"U+03A5", "U+0308", "U+0342">>>>,
     <<"U+1FF2", <<"U+1FFA", "U+0399">>>>, <<"U+1FF3", <<"U+03A9", "U+0399">>>>,
     <<"U+1FF4", <<"U+038F", "U+0399">>>>, <<"U+1FF6", <<"U+03A9", "U+0342">>>>,
     <<"U+1FF7", <<"U+03A9", "U+0342", "U+0399">>>>, <<"U+1FFC", <<"U+03A9", "U+0399">>>>,
     <<"U+214E", <<"U+2132">>>>, <<"U+2170", <<"U+2160">>>>, <<"U+2171", <<"U+2161">>>>,
     <<"U+2172", <<"U+2162">>>>, <<"U+2173", <<"U+2163">>>>, <<"U+2174", <<"U+2164">>>>,
     <<"U+2175", <<"U+2165">>>>, <<"U+2176", <<"U+2166">>>>, <<"U+2177", <<"U+2167">>>>,
     <<"U+2178", <<"U+2168">>>>, <<"U+2179", <<"U+2169">>>>, <<"U+217A", <<"U+216A">>>>,
     <<"U+217B", <<"U+216B">>>>, <<"U+217C", <<"U+216C">>>>, <<"U+217D", <<"U+216D">>>>,
     <<"U+217E", <<"U+216E">>>>, <<"U+217F", <<"U+216F">>>>, <<"U+2184", <<"U+2183">>>>,
     <<"U+24D0", <<"U+24B6">>>>, <<"U+24D1", <<"U+24B7">>>>, <<"U+24D2", <<"U+24B8">>>>,
     <<"U+24D3", <<"U+24B9">>>>, <<"U+24D4", <<"U+24BA">>>>, <<"U+24D5", <<"U+24BB">>>>,
     <<"U+24D6", <<"U+24BC">>>>, <<"U+24D7", <<"U+24BD">>>>, <<"U+24D8", <<"U+24BE">>>>,
     <<"U+24D9", <<"U+24BF">>>>, <<"U+24DA", <<"U+24C0">>>>, <<"U+24DB", <<"U+24C1">>>>,
     <<"U+24DC", <<"U+24C2">>>>, <<"U+24DD", <<"U+24C3">>>>, <<"U+24DE", <<"U+24C4">>>>,
     <<"U+24DF", <<"U+24C5">>>>, <<"U+24E0", <<"U+24C6">>>>, <<"U+24E1", <<"U+24C7">>>>,
     <<"U+24E2", <<"U+24C8">>>>, <<"U+24E3", <<"U+24C9">>>>, <<"U+24E4", <<"U+24CA">>>>,
     <<"U+24E5", <<"U+24CB">>>>, <<"U+24E6", <<"U+24CC">>>>, <<"U+24E7", <<"U+24CD">>>>,
     <<"U+24E8", <<"U+24CE">>>>, <<"U+24E9", <<"U+24CF">>>>, <<"U+2C30", <<"U+2C00">>>>,
     <<"U+2C31", <<"U+2C01">>>>, <<"U+2C32", <<"U+2C02">>>>, <<"U+2C33", <<"U+2C03">>>>,
     <<"U+2C34", <<"U+2C04">>>>, <<"U+2C35", <<"U+2C05">>>>, <<"U+2C36", <<"U+2C06">>>>,
     <<"U+2C37", <<"U+2C07">>>>, <<"U+2C38", <<"U+2C08">>>>, <<"U+2C39", <<"U+2C09">>>>,
     <<"U+2C3A", <<"U+2C0A">>>>, <<"U+2C3B", <<"U+2C0B">>>>, <<"U+2C3C", <<"U+2C0C">>>>,
     <<"U+2C3D", <<"U+2C0D">>>>, <<"U+2C3E", <<"U+2C0E">>>>, <<"U+2C3F", <<"U+2C0F">>>>,
     <<"U+2C40", <<"U+2C10">>>>, <<"U+2C41", <<"U+2C11">>>>, <<"U+2C42", <<"U+2C12">>>>,
     <<"U+2C43", <<"U+2C13">>>>, <<"U+2C44", <<"U+2C14">>>>, <<"U+2C45", <<"U+2C15">>>>,
     <<"U+2C46", <<"U+2C16">>>>, <<"U+2C47", <<"U+2C17">>>>, <<"U+2C48", <<"U+2C18">>>>,
     <<"U+2C49", <<"U+2C19">>>>, <<"U+2C4A", <<"U+2C1A">>>>, <<"U+2C4B", <<"U+2C1B">>>>,
     <<"U+2C4C", <<"U+2C1C">>>>, <<"U+2C4D", <<"U+2C1D">>>>, <<"U+2C4E", <<"U+2C1E">>>>,
     <<"U+2C4F", <<"U+2C1F">>>>, <<"U+2C50", <<"U+2C20">>>>, <<"U+2C51", <<"U+2C21">>>>,
     <<"U+2C52", <<"U+2C22">>>>, <<"U+2C53", <<"U+2C23">>>>, <<"U+2C54", <<"U+2C24">>>>,
     <<"U+2C55", <<"U+2C25">>>>, <<"U+2C56", <<"U+2C26">>>>, <<"U+2C57", <<"U+2C27">>>>,
     <<"U+2C58", <<"U+2C28">>>>, <<"U+2C59", <<"U+2C29">>>>, <<"U+2C5A", <<"U+2C2A">>>>,
     <<"U+2C5B", <<"U+2C2B">>>>, <<"U+2C5C", <<"U+2C2C">>>>, <<"U+2C5D", <<"U+2C2D">>>>,
     <<"U+2C5E", <<"U+2C2E">>>>, <<"U+2C5F", <<"U+2C2F">>>>, <<"U+2C61", <<"U+2C60">>>>,
     <<"U+2C65", <<"U+023A">>>>, <<"U+2C66", <<"U+023E">>>>, <<"U+2C68", <<"U+2C67">>>>,
     <<"U+2C6A", <<"U+2C69">>>>, <<"U+2C6C", <<"U+2C6B">>>>, <<"U+2C73", <<"U+2C72">>>>,
     <<"U+2C76", <<"U+2C75">>>>, <<"U+2C81", <<"U+2C80">>>>, <<"U+2C83", <<"U+2C82">>>>,
     <<"U+2C85", <<"U+2C84">>>>, <<"U+2C87", <<"U+2C86">>>>, <<"U+2C89", <<"U+2C88">>>>,
     <<"U+2C8B", <<"U+2C8A">>>>, <<"U+2C8D", <<"U+2C8C">>>>, <<"U+2C8F", <<"U+2C8E">>>>,
     <<"U+2C91", <<"U+2C90">>>>, <<"U+2C93", <<"U+2C92">>>>, <<"U+2C95", <<"U+2C94">>>>,
     <<"U+2C97", <<"U+2C96">>>>, <<"U+2C99", <<"U+2C98">>>>, <<"U+2C9B", <<"U+2C9A">>>>,
     <<"U+2C9D", <<"U+2C9C">>>>, <<"U+2C9F", <<"U+2C9E">>>>, <<"U+2CA1", <<"U+2CA0">>>>,
     <<"U+2CA3", <<"U+2CA2">>>>, <<"U+2CA5", <<"U+2CA4">>>>, <<"U+2CA7", <<"U+2CA6">>>>,
     <<"U+2CA9", <<"U+2CA8">>>>, <<"U+2CAB", <<"U+2CAA">>>>, <<"U+2CAD", <<"U+2CAC">>>>,
     <<"U+2CAF", <<"U+2CAE">>>>, <<"U+2CB1", <<"U+2CB0">>>>, <<"U+2CB3", <<"U+2CB2">>>>,
     <<"U+2CB5", <<"U+2CB4">>>>, <<"U+2CB7", <<"U+2CB6">>>>, <<"U+2CB9", <<"U+2CB8">>>>,
     <<"U+2CBB", <<"U+2CBA">>>>, <<"U+2CBD", <<"U+2CBC">>>>, <<"U+2CBF", <<"U+2CBE">>>>,
     <<"U+2CC1", <<"U+2CC0">>>>, <<"U+2CC3", <<"U+2CC2">>>>, <<"U+2CC5", <<"U+2CC4">>>>,
     <<"U+2CC7", <<"U+2CC6">>>>, <<"U+2CC9", <<"U+2CC8">>>>, <<"U+2CCB", <<"U+2CCA">>>>,
     <<"U+2CCD", <<"U+2CCC">>>>, <<"U+2CCF", <<"U+2CCE">>>>, <<"U+2CD1", <<"U+2CD0">>>>,
     <<"U+2CD3", <<"U+2CD2">>>>, <<"U+2CD5", <<"U+2CD4">>>>, <<"U+2CD7", <<"U+2CD6">>>>,
     <<"U+2CD9", <<"U+2CD8">>>>, <<"U+2CDB", <<"U+2CDA">>>>, <<"U+2CDD", <<"U+2CDC">>>>,
     <<"U+2CDF", <<"U+2CDE">>>>, <<"U+2CE1", <<"U+2CE0">>>>, <<"U+2CE3", <<"U+2CE2">>>>,
     <<"U+2CEC", <<"U+2CEB">>>>, <<"U+2CEE", <<"U+2CED">>>>, <<"U+2CF3", <<"U+2CF2">>>>,
     <<"U+2D00", <<"U+10A0">>>>, <<"U+2D01", <<"U+10A1">>>>, <<"U+2D02", <<"U+10A2">>>>,
     <<"U+2D03", <<"U+10A3">>>>, <<"U+2D04", <<"U+10A4">>>>, <<"U+2D05", <<"U+10A5">>>>,
     <<"U+2D06", <<"U+10A6">>>>, <<"U+2D07", <<"U+10A7">>>>, <<"U+2D08", <<"U+10A8">>>>,
     <<"U+2D09", <<"U+10A9">>>>, <<"U+2D0A", <<"U+10AA">>>>, <<"U+2D0B", <<"U+10AB">>>>,
     <<"U+2D0C", <<"U+10AC">>>>, <<"U+2D0D", <<"U+10AD">>>>, <<"U+2D0E", <<"U+10AE">>>>,
     <<"U+2D0F", <<"U+10AF">>>>, <<"U+2D10", <<"U+10B0">>>>, <<"U+2D11", <<"U+10B1">>>>,
     <<"U+2D12", <<"U+10B2">>>>, <<"U+2D13", <<"U+10B3">>>>, <<"U+2D14", <<"U+10B4">>>>,
     <<"U+2D15", <<"U+10B5">>>>, <<"U+2D16", <<"U+10B6">>>>, <<"U+2D17", <<"U+10B7">>>>,
     <<"U+2D18", <<"U+10B8">>>>, <<"U+2D19", <<"U+10B9">>>>, <<"U+2D1A", <<"U+10BA">>>>,
     <<"U+2D1B", <<"U+10BB">>>>, <<"U+2D1C", <<"U+10BC">>>>, <<"U+2D1D", <<"U+10BD">>>>,
     <<"U+2D1E", <<"U+10BE">>>>, <<"U+2D1F", <<"U+10BF">>>>, <<"U+2D20", <<"U+10C0">>>>,
     <<"U+2D21", <<"U+10C1">>>>, <<"U+2D22", <<"U+10C2">>>>, <<"U+2D23", <<"U+10C3">>>>,
     <<"U+2D24", <<"U+10C4">>>>, <<"U+2D25", <<"U+10C5">>>>, <<"U+2D27", <<"U+10C7">>>>,
     <<"U+2D2D", <<"U+10CD">>>>, <<"U+A641", <<"U+A640">>>>, <<"U+A643", <<"U+A642">>>>,
     <<"U+A645", <<"U+A644">>>>, <<"U+A647", <<"U+A646">>>>, <<"U+A649", <<"U+A648">>>>,
     <<"U+A64B", <<"U+A64A">>>>, <<"U+A64D", <<"U+A64C">>>>, <<"U+A64F", <<"U+A64E">>>>,
     <<"U+A651", <<"U+A650">>>>, <<"U+A653", <<"U+A652">>>>, <<"U+A655", <<"U+A654">>>>,
     <<"U+A657", <<"U+A656">>>>, <<"U+A659", <<"U+A658">>>>, <<"U+A65B", <<"U+A65A">>>>,
     <<"U+A65D", <<"U+A65C">>>>, <<"U+A65F", <<"U+A65E">>>>, <<"U+A661", <<"U+A660">>>>,
     <<"U+A663", <<"U+A662">>>>, <<"U+A665", <<"U+A664">>>>, <<"U+A667", <<"U+A666">>>>,
     <<"U+A669", <<"U+A668">>>>, <<"U+A66B", <<"U+A66A">>>>, <<"U+A66D", <<"U+A66C">>>>,
     <<"U+A681", <<"U+A680">>>>, <<"U+A683", <<"U+A682">>>>, <<"U+A685", <<"U+A684">>>>,
     <<"U+A687", <<"U+A686">>>>, <<"U+A689", <<"U+A688">>>>, <<"U+A68B", <<"U+A68A">>>>,
     <<"U+A68D", <<"U+A68C">>>>, <<"U+A68F", <<"U+A68E">>>>, <<"U+A691", <<"U+A690">>>>,
     <<"U+A693", <<"U+A692">>>>, <<"U+A695", <<"U+A694">>>>, <<"U+A697", <<"U+A696">>>>,
     <<"U+A699", <<"U+A698">>>>, <<"U+A69B", <<"U+A69A">>>>, <<"U+A723", <<"U+A722">>>>,
     <<"U+A725", <<"U+A724">>>>, <<"U+A727", <<"U+A726">>>>, <<"U+A729", <<"U+A728">>>>,
     <<"U+A72B", <<"U+A72A">>>>, <<"U+A72D", <<"U+A72C">>>>, <<"U+A72F", <<"U+A72E">>>>,
     <<"U+A733", <<"U+A732">>>>, <<"U+A735", <<"U+A734">>>>, <<"U+A737", <<"U+A736">>>>,
     <<"U+A739", <<"U+A738">>>>, <<"U+A73B", <<"U+A73A">>>>, <<"U+A73D", <<"U+A73C">>>>,
     <<"U+A73F", <<"U+A73E">>>>, <<"U+A741", <<"U+A740">>>>, <<"U+A743", <<"U+A742">>>>,
     <<"U+A745", <<"U+A744">>>>, <<"U+A747", <<"U+A746">>>>, <<"U+A749", <<"U+A748">>>>,
     <<"U+A74B", <<"U+A74A">>>>, <<"U+A74D", <<"U+A74C">>>>, <<"U+A74F", <<"U+A74E">>>>,
     <<"U+A751", <<"U+A750">>>>, <<"U+A753", <<"U+A752">>>>, <<"U+A755", <<"U+A754">>>>,
     <<"U+A757", <<"U+A756">>>>, <<"U+A759", <<"U+A758">>>>, <<"U+A75B", <<"U+A75A">>>>,
     <<"U+A75D", <<"U+A75C">>>>, <<"U+A75F", <<"U+A75E">>>>, <<"U+A761", <<"U+A760">>>>,
     <<"U+A763", <<"U+A762">>>>, <<"U+A765", <<"U+A764">>>>, <<"U+A767", <<"U+A766">>>>,
     <<"U+A769", <<"U+A768">>>>, <<"U+A76B", <<"U+A76A">>>>, <<"U+A76D", <<"U+A76C">>>>,
     <<"U+A76F", <<"U+A76E">>>>, <<"U+A77A", <<"U+A779">>>>, <<"U+A77C", <<"U+A77B">>>>,
     <<"U+A77F", <<"U+A77E">>>>, <<"U+A781", <<"U+A780">>>>, <<"U+A783", <<"U+A782">>>>,
     <<"U+A785", <<"U+A784">>>>, <<"U+A787", <<"U+A786">>>>, <<"U+A78C", <<"U+A78B">>>>,
     <<"U+A791", <<"U+A790">>>>, <<"U+A793", <<"U+A792">>>>, <<"U+A794", <<"U+A7C4">>>>,
     <<"U+A797", <<"U+A796">>>>, <<"U+A799", <<"U+A798">>>>, <<"U+A79B", <<"U+A79A">>>>,
     <<"U+A79D", <<"U+A79C">>>>, <<"U+A79F", <<"U+A79E">>>>, <<"U+A7A1", <<"U+A7A0">>>>,
     <<"U+A7A3", <<"U+A7A2">>>>, <<"U+A7A5", <<"U+A7A4">>>>, <<"U+A7A7", <<"U+A7A6">>>>,
     <<"U+A7A9", <<"U+A7A8">>>>, <<"U+A7B5", <<"U+A7B4">>>>, <<"U+A7B7", <<"U+A7B6">>>>,
     <<"U+A7B9", <<"U+A7B8">>>>, <<"U+A7BB", <<"U+A7BA">>>>, <<"U+A7BD", <<"U+A7BC">>>>,
     <<"U+A7BF", <<"U+A7BE">>>>, <<"U+A7C1", <<"U+A7C0">>>>, <<"U+A7C3", <<"U+A7C2">>>>,
     <<"U+A7C8", <<"U+A7C7">>>>, <<"U+A7CA", <<"U+A7C9">>>>, <<"U+A7D1", <<"U+A7D0">>>>,
     <<"U+A7D7", <<"U+A7D6">>>>, <<"U+A7D9", <<"U+A7D8">>>>, <<"U+A7F6", <<"U+A7F5">>>>,
     <<"U+AB53", <<"U+A7B3">>>>, <<"U+AB70", <<"U+13A0">>>>, <<"U+AB71", <<"U+13A1">>>>,
     <<"U+AB72", <<"U+13A2">>>>, <<"U+AB73", <<"U+13A3">>>>, <<"U+AB74", <<"U+13A4">>>>,
     <<"U+AB75", <<"U+13A5">>>>, <<"U+AB76", <<"U+13A6">>>>, <<"U+AB77", <<"U+13A7">>>>,
     <<"U+AB78", <<"U+13A8">>>>, <<"U+AB79", <<"U+13A9">>>>, <<"U+AB7A", <<"U+13AA">>>>,
     <<"U+AB7B", <<"U+13AB">>>>, <<"U+AB7C", <<"U+13AC">>>>, <<"U+AB7D", <<"U+13AD">>>>,
     <<"U+AB7E", <<"U+13AE">>>>, <<"U+AB7F", <<"U+13AF">>>>, <<"U+AB80", <<"U+13B0">>>>,
     <<"U+AB81", <<"U+13B1">>>>, <<"U+AB82", <<"U+13B2">>>>, <<"U+AB83", <<"U+13B3">>>>,
     <<"U+AB84", <<"U+13B4">>>>, <<"U+AB85", <<"U+13B5">>>>, <<"U+AB86", <<"U+13B6">>>>,
     <<"U+AB87", <<"U+13B7">>>>, <<"U+AB88", <<"U+13B8">>>>, <<"U+AB89", <<"U+13B9">>>>,
     <<"U+AB8A", <<"U+13BA">>>>, <<"U+AB8B", <<"U+13BB">>>>, <<"U+AB8C", <<"U+13BC">>>>,
     <<"U+AB8D", <<"U+13BD">>>>, <<"U+AB8E", <<"U+13BE">>>>, <<"U+AB8F", <<"U+13BF">>>>,
     <<"U+AB90", <<"U+13C0">>>>, <<"U+AB91", <<"U+13C1">>>>, <<"U+AB92", <<"U+13C2">>>>,
     <<"U+AB93", <<"U+13C3">>>>, <<"U+AB94", <<"U+13C4">>>>, <<"U+AB95", <<"U+13C5">>>>,
     <<"U+AB96", <<"U+13C6">>>>, <<"U+AB97", <<"U+13C7">>>>, <<"U+AB98", <<"U+13C8">>>>,
     <<"U+AB99", <<"U+13C9">>>>, <<"U+AB9A", <<"U+13CA">>>>, <<"U+AB9B", <<"U+13CB">>>>,
     <<"U+AB9C", <<"U+13CC">>>>, <<"U+AB9D", <<"U+13CD">>>>, <<"U+AB9E", <<"U+13CE">>>>,
     <<"U+AB9F", <<"U+13CF">>>>, <<"U+ABA0", <<"U+13D0">>>>, <<"U+ABA1", <<"U+13D1">>>>,
     <<"U+ABA2", <<"U+13D2">>>>, <<"U+ABA3", <<"U+13D3">>>>, <<"U+ABA4", <<"U+13D4">>>>,
     <<"U+ABA5", <<"U+13D5">>>>, <<"U+ABA6", <<"U+13D6">>>>, <<"U+ABA7", <<"U+13D7">>>>,
     <<"U+ABA8", <<"U+13D8">>>>, <<"U+ABA9", <<"U+13D9">>>>, <<"U+ABAA", <<"U+13DA">>>>,
     <<"U+ABAB", <<"U+13DB">>>>, <<"U+ABAC", <<"U+13DC">>>>, <<"U+ABAD", <<"U+13DD">>>>,
     <<"U+ABAE", <<"U+13DE">>>>, <<"U+ABAF", <<"U+13DF">>>>, <<"U+ABB0", <<"U+13E0">>>>,
     <<"U+ABB1", <<"U+13E1">>>>, <<"U+ABB2", <<"U+13E2">>>>, <<"U+ABB3", <<"U+13E3">>>>,
     <<"U+ABB4", <<"U+13E4">>>>, <<"U+ABB5", <<"U+13E5">>>>, <<"U+ABB6", <<"U+13E6">>>>,
     <<"U+ABB7", <<"U+13E7">>>>, <<"U+ABB8", <<"U+13E8">>>>, <<"U+ABB9", <<"U+13E9">>>>,
     <<"U+ABBA", <<"U+13EA">>>>, <<"U+ABBB", <<"U+13EB">>>>, <<"U+ABBC", <<"U+13EC">>>>,
     <<"U+ABBD", <<"U+13ED">>>>, <<"U+ABBE", <<"U+13EE">>>>, <<"U+ABBF", <<"U+13EF">>>>,
     <<"U+FB00", <<"F", "F">>>>, <<"U+FB01", <<"F", "I">>>>, <<"U+FB02", <<"F", "L">>>>,
     <<"U+FB03", <<"F", "F", "I">>>>, <<"U+FB04", <<"F", "F", "L">>>>, <<"U+FB05", <<"S", "T">>>>,
     <<"U+FB06", <<"S", "T">>>>, <<"U+FB13", <<"U+0544", "U+0546">>>>,
     <<"U+FB14", <<"U+0544", "U+0535">>>>, <<"U+FB15", <<"U+0544", "U+053B">>>>,
     <<"U+FB16", <<"U+054E", "U+0546">>>>, <<"U+FB17", <<"U+0544", "U+053D">>>>,
     <<"U+FF41", <<"U+FF21">>>>, <<"U+FF42", <<"U+FF22">>>>, <<"U+FF43", <<"U+FF23">>>>,
     <<"U+FF44", <<"U+FF24">>>>, <<"U+FF45", <<"U+FF25">>>>, <<"U+FF46", <<"U+FF26">>>>,
     <<"U+FF47", <<"U+FF27">>>>, <<"U+FF48", <<"U+FF28">>>>, <<"U+FF49", <<"U+FF29">>>>,
     <<"U+FF4A", <<"U+FF2A">>>>, <<"U+FF4B", <<"U+FF2B">>>>, <<"U+FF4C", <<"U+FF2C">>>>,
     <<"U+FF4D", <<"U+FF2D">>>>, <<"U+FF4E", <<"U+FF2E">>>>, <<"U+FF4F", <<"U+FF2F">>>>,
     <<"U+FF50", <<"U+FF30">>>>, <<"U+FF51", <<"U+FF31">>>>, <<"U+FF52", <<"U+FF32">>>>,
     <<"U+FF53", <<"U+FF33">>>>, <<"U+FF54", <<"U+FF34">>>>, <<"U+FF55", <<"U+FF35">>>>,
     <<"U+FF56", <<"U+FF36">>>>, <<"U+FF57", <<"U+FF37">>>>, <<"U+FF58", <<"U+FF38">>>>,
     <<"U+FF59", <<"U+FF39">>>>, <<"U+FF5A", <<"U+FF3A">>>>, <<"U+10428", <<"U+10400">>>>,
     <<"U+10429", <<"U+10401">>>>, <<"U+1042A", <<"U+10402">>>>, <<"U+1042B", <<"U+10403">>>>,
     <<"U+1042C", <<"U+10404">>>>, <<"U+1042D", <<"U+10405">>>>, <<"U+1042E", <<"U+10406">>>>,
     <<"U+1042F", <<"U+10407">>>>, <<"U+10430", <<"U+10408">>>>, <<"U+10431", <<"U+10409">>>>,
     <<"U+10432", <<"U+1040A">>>>, <<"U+10433", <<"U+1040B">>>>, <<"U+10434", <<"U+1040C">>>>,
     <<"U+10435", <<"U+1040D">>>>, <<"U+10436", <<"U+1040E">>>>, <<"U+10437", <<"U+1040F">>>>,
     <<"U+10438", <<"U+10410">>>>, <<"U+10439", <<"U+10411">>>>, <<"U+1043A", <<"U+10412">>>>,
     <<"U+1043B", <<"U+10413">>>>, <<"U+1043C", <<"U+10414">>>>, <<"U+1043D", <<"U+10415">>>>,
     <<"U+1043E", <<"U+10416">>>>, <<"U+1043F", <<"U+10417">>>>, <<"U+10440", <<"U+10418">>>>,
     <<"U+10441", <<"U+10419">>>>, <<"U+10442", <<"U+1041A">>>>, <<"U+10443", <<"U+1041B">>>>,
     <<"U+10444", <<"U+1041C">>>>, <<"U+10445", <<"U+1041D">>>>, <<"U+10446", <<"U+1041E">>>>,
     <<"U+10447", <<"U+1041F">>>>, <<"U+10448", <<"U+10420">>>>, <<"U+10449", <<"U+10421">>>>,
     <<"U+1044A", <<"U+10422">>>>, <<"U+1044B", <<"U+10423">>>>, <<"U+1044C", <<"U+10424">>>>,
     <<"U+1044D", <<"U+10425">>>>, <<"U+1044E", <<"U+10426">>>>, <<"U+1044F", <<"U+10427">>>>,
     <<"U+104D8", <<"U+104B0">>>>, <<"U+104D9", <<"U+104B1">>>>, <<"U+104DA", <<"U+104B2">>>>,
     <<"U+104DB", <<"U+104B3">>>>, <<"U+104DC", <<"U+104B4">>>>, <<"U+104DD", <<"U+104B5">>>>,
     <<"U+104DE", <<"U+104B6">>>>, <<"U+104DF", <<"U+104B7">>>>, <<"U+104E0", <<"U+104B8">>>>,
     <<"U+104E1", <<"U+104B9">>>>, <<"U+104E2", <<"U+104BA">>>>, <<"U+104E3", <<"U+104BB">>>>,
     <<"U+104E4", <<"U+104BC">>>>, <<"U+104E5", <<"U+104BD">>>>, <<"U+104E6", <<"U+104BE">>>>,
     <<"U+104E7", <<"U+104BF">>>>, <<"U+104E8", <<"U+104C0">>>>, <<"U+104E9", <<"U+104C1">>>>,
     <<"U+104EA", <<"U+104C2">>>>, <<"U+104EB", <<"U+104C3">>>>, <<"U+104EC", <<"U+104C4">>>>,
     <<"U+104ED", <<"U+104C5">>>>, <<"U+104EE", <<"U+104C6">>>>, <<"U+104EF", <<"U+104C7">>>>,
     <<"U+104F0", <<"U+104C8">>>>, <<"U+104F1", <<"U+104C9">>>>, <<"U+104F2", <<"U+104CA">>>>,
     <<"U+104F3", <<"U+104CB">>>>, <<"U+104F4", <<"U+104CC">>>>, <<"U+104F5", <<"U+104CD">>>>,
     <<"U+104F6", <<"U+104CE">>>>, <<"U+104F7", <<"U+104CF">>>>, <<"U+104F8", <<"U+104D0">>>>,
     <<"U+104F9", <<"U+104D1">>>>, <<"U+104FA", <<"U+104D2">>>>, <<"U+104FB", <<"U+104D3">>>>,
     <<"U+10597", <<"U+10570">>>>, <<"U+10598", <<"U+10571">>>>, <<"U+10599", <<"U+10572">>>>,
     <<"U+1059A", <<"U+10573">>>>, <<"U+1059B", <<"U+10574">>>>, <<"U+1059C", <<"U+10575">>>>,
     <<"U+1059D", <<"U+10576">>>>, <<"U+1059E", <<"U+10577">>>>, <<"U+1059F", <<"U+10578">>>>,
     <<"U+105A0", <<"U+10579">>>>, <<"U+105A1", <<"U+1057A">>>>, <<"U+105A3", <<"U+1057C">>>>,
     <<"U+105A4", <<"U+1057D">>>>, <<"U+105A5", <<"U+1057E">>>>, <<"U+105A6", <<"U+1057F">>>>,
     <<"U+105A7", <<"U+10580">>>>, <<"U+105A8", <<"U+10581">>>>, <<"U+105A9", <<"U+10582">>>>,
     <<"U+105AA", <<"U+10583">>>>, <<"U+105AB", <<"U+10584">>>>, <<"U+105AC", <<"U+10585">>>>,
     <<"U+105AD", <<"U+10586">>>>, <<"U+105AE", <<"U+10587">>>>, <<"U+105AF", <<"U+10588">>>>,
     <<"U+105B0", <<"U+10589">>>>, <<"U+105B1", <<"U+1058A">>>>, <<"U+105B3", <<"U+1058C">>>>,
     <<"U+105B4", <<"U+1058D">>>>, <<"U+105B5", <<"U+1058E">>>>, <<"U+105B6", <<"U+1058F">>>>,
     <<"U+105B7", <<"U+10590">>>>, <<"U+105B8", <<"U+10591">>>>, <<"U+105B9", <<"U+10592">>>>,
     <<"U+105BB", <<"U+10594">>>>, <<"U+105BC", <<"U+10595">>>>, <<"U+10CC0", <<"U+10C80">>>>,
     <<"U+10CC1", <<"U+10C81">>>>, <<"U+10CC2", <<"U+10C82">>>>, <<"U+10CC3", <<"U+10C83">>>>,
     <<"U+10CC4", <<"U+10C84">>>>, <<"U+10CC5", <<"U+10C85">>>>, <<"U+10CC6", <<"U+10C86">>>>,
     <<"U+10CC7", <<"U+10C87">>>>, <<"U+10CC8", <<"U+10C88">>>>, <<"U+10CC9", <<"U+10C89">>>>,
     <<"U+10CCA", <<"U+10C8A">>>>, <<"U+10CCB", <<"U+10C8B">>>>, <<"U+10CCC", <<"U+10C8C">>>>,
     <<"U+10CCD", <<"U+10C8D">>>>, <<"U+10CCE", <<"U+10C8E">>>>, <<"U+10CCF", <<"U+10C8F">>>>,
     <<"U+10CD0", <<"U+10C90">>>>, <<"U+10CD1", <<"U+10C91">>>>, <<"U+10CD2", <<"U+10C92">>>>,
     <<"U+10CD3", <<"U+10C93">>>>, <<"U+10CD4", <<"U+10C94">>>>, <<"U+10CD5", <<"U+10C95">>>>,
     <<"U+10CD6", <<"U+10C96">>>>, <<"U+10CD7", <<"U+10C97">>>>, <<"U+10CD8", <<"U+10C98">>>>,
     <<"U+10CD9", <<"U+10C99">>>>, <<"U+10CDA", <<"U+10C9A">>>>, <<"U+10CDB", <<"U+10C9B">>>>,
     <<"U+10CDC", <<"U+10C9C">>>>, <<"U+10CDD", <<"U+10C9D">>>>, <<"U+10CDE", <<"U+10C9E">>>>,
     <<"U+10CDF", <<"U+10C9F">>>>, <<"U+10CE0", <<"U+10CA0">>>>, <<"U+10CE1", <<"U+10CA1">>>>,
     <<"U+10CE2", <<"U+10CA2">>>>, <<"U+10CE3", <<"U+10CA3">>>>, <<"U+10CE4", <<"U+10CA4">>>>,
     <<"U+10CE5", <<"U+10CA5">>>>, <<"U+10CE6", <<"U+10CA6">>>>, <<"U+10CE7", <<"U+10CA7">>>>,
     <<"U+10CE8", <<"U+10CA8">>>>, <<"U+10CE9", <<"U+10CA9">>>>, <<"U+10CEA", <<"U+10CAA">>>>,
     <<"U+10CEB", <<"U+10CAB">>>>, <<"U+10CEC", <<"U+10CAC">>>>, <<"U+10CED", <<"U+10CAD">>>>,
     <<"U+10CEE", <<"U+10CAE">>>>, <<"U+10CEF", <<"U+10CAF">>>>, <<"U+10CF0", <<"U+10CB0">>>>,
     <<"U+10CF1", <<"U+10CB1">>>>, <<"U+10CF2", <<"U+10CB2">>>>, <<"U+118C0", <<"U+118A0">>>>,
     <<"U+118C1", <<"U+118A1">>>>, <<"U+118C2", <<"U+118A2">>>>, <<"U+118C3", <<"U+118A3">>>>,
     <<"U+118C4", <<"U+118A4">>>>, <<"U+118C5", <<"U+118A5">>>>, <<"U+118C6", <<"U+118A6">>>>,
     <<"U+118C7", <<"U+118A7">>>>, <<"U+118C8", <<"U+118A8">>>>, <<"U+118C9", <<"U+118A9">>>>,
     <<"U+118CA", <<"U+118AA">>>>, <<"U+118CB", <<"U+118AB">>>>, <<"U+118CC", <<"U+118AC">>>>,
     <<"U+118CD", <<"U+118AD">>>>, <<"U+118CE", <<"U+118AE">>>>, <<"U+118CF", <<"U+118AF">>>>,
     <<"U+118D0", <<"U+118B0">>>>, <<"U+118D1", <<"U+118B1">>>>, <<"U+118D2", <<"U+118B2">>>>,
     <<"U+118D3", <<"U+118B3">>>>, <<"U+118D4", <<"U+118B4">>>>, <<"U+118D5", <<"U+118B5">>>>,
     <<"U+118D6", <<"U+118B6">>>>, <<"U+118D7", <<"U+118B7">>>>, <<"U+118D8", <<"U+118B8">>>>,
     <<"U+118D9", <<"U+118B9">>>>, <<"U+118DA", <<"U+118BA">>>>, <<"U+118DB", <<"U+118BB">>>>,
     <<"U+118DC", <<"U+118BC">>>>, <<"U+118DD", <<"U+118BD">>>>, <<"U+118DE", <<"U+118BE">>>>,
     <<"U+118DF", <<"U+118BF">>>>, <<"U+16E60", <<"U+16E40">>>>, <<"U+16E61", <<"U+16E41">>>>,
     <<"U+16E62", <<"U+16E42">>>>, <<"U+16E63", <<"U+16E43">>>>, <<"U+16E64", <<"U+16E44">>>>,
     <<"U+16E65", <<"U+16E45">>>>, <<"U+16E66", <<"U+16E46">>>>, <<"U+16E67", <<"U+16E47">>>>,
     <<"U+16E68", <<"U+16E48">>>>, <<"U+16E69", <<"U+16E49">>>>, <<"U+16E6A", <<"U+16E4A">>>>,
     <<"U+16E6B", <<"U+16E4B">>>>, <<"U+16E6C", <<"U+16E4C">>>>, <<"U+16E6D", <<"U+16E4D">>>>,
     <<"U+16E6E", <<"U+16E4E">>>>, <<"U+16E6F", <<"U+16E4F">>>>, <<"U+16E70", <<"U+16E50">>>>,
     <<"U+16E71", <<"U+16E51">>>>, <<"U+16E72", <<"U+16E52">>>>, <<"U+16E73", <<"U+16E53">>>>,
     <<"U+16E74", <<"U+16E54">>>>, <<"U+16E75", <<"U+16E55">>>>, <<"U+16E76", <<"U+16E56">>>>,
     <<"U+16E77", <<"U+16E57">>>>, <<"U+16E78", <<"U+16E58">>>>, <<"U+16E79", <<"U+16E59">>>>,
     <<"U+16E7A", <<"U+16E5A">>>>, <<"U+16E7B", <<"U+16E5B">>>>, <<"U+16E7C", <<"U+16E5C">>>>,
     <<"U+16E7D", <<"U+16E5D">>>>, <<"U+16E7E", <<"U+16E5E">>>>, <<"U+16E7F", <<"U+16E5F">>>>,
     <<"U+1E922", <<"U+1E900">>>>, <<"U+1E923", <<"U+1E901">>>>, <<"U+1E924", <<"U+1E902">>>>,
     <<"U+1E925", <<"U+1E903">>>>, <<"U+1E926", <<"U+1E904">>>>, <<"U+1E927", <<"U+1E905">>>>,
     <<"U+1E928", <<"U+1E906">>>>, <<"U+1E929", <<"U+1E907">>>>, <<"U+1E92A", <<"U+1E908">>>>,
     <<"U+1E92B", <<"U+1E909">>>>, <<"U+1E92C", <<"U+1E90A">>>>, <<"U+1E92D", <<"U+1E90B">>>>,
     <<"U+1E92E", <<"U+1E90C">>>>, <<"U+1E92F", <<"U+1E90D">>>>, <<"U+1E930", <<"U+1E90E">>>>,
     <<"U+1E931", <<"U+1E90F">>>>, <<"U+1E932", <<"U+1E910">>>>, <<"U+1E933", <<"U+1E911">>>>,
     <<"U+1E934", <<"U+1E912">>>>, <<"U+1E935", <<"U+1E913">>>>, <<"U+1E936", <<"U+1E914">>>>,
     <<"U+1E937", <<"U+1E915">>>>, <<"U+1E938", <<"U+1E916">>>>, <<"U+1E939", <<"U+1E917">>>>,
     <<"U+1E93A", <<"U+1E918">>>>, <<"U+1E93B", <<"U+1E919">>>>, <<"U+1E93C", <<"U+1E91A">>>>,
     <<"U+1E93D", <<"U+1E91B">>>>, <<"U+1E93E", <<"U+1E91C">>>>, <<"U+1E93F", <<"U+1E91D">>>>,
     <<"U+1E940", <<"U+1E91E">>>>, <<"U+1E941", <<"U+1E91F">>>>, <<"U+1E942", <<"U+1E920">>>>,
     <<"U+1E943", <<"U+1E921">>>> >>

WideLower == {UpperPairs[i][1] : i \in DOMAIN UpperPairs}
UpperWide ==
  [c \in WideLower |-> UpperPairs[CHOOSE i \in DOMAIN UpperPairs : UpperPairs[i][1] = c][2]]

\* str.upper() on one character: the characters it becomes
UpperChar(c) ==
  IF \E i \in 1..26 : Lower[i] = c
    THEN <<UpperOf[CHOOSE i \in 1..26 : Lower[i] = c]>>
  ELSE IF c \in WideLower THEN UpperWide[c]
  ELSE <<c>>

\* str.upper()
RECURSIVE Upper(_)
Upper(s) == IF s = <<>> THEN <<>> ELSE UpperChar(Head(s)) \o Upper(Tail(s))

\* the characters str.strip() removes: those for which str.isspace() holds
WhiteSpace ==
  {"\t", "\n", "U+000B", "\f", "\r", "U+001C", "U+001D", "U+001E", "U+001F", " ",
   "U+0085", "U+00A0", "U+1680", "U+2000", "U+2001", "U+2002", "U+2003", "U+2004",
   "U+2005", "U+2006", "U+2007", "U+2008", "U+2009", "U+200A", "U+2028", "U+2029",
   "U+202F", "U+205F", "U+3000"}

IsSpace(c) == c \in WhiteSpace

RECURSIVE LStrip(_)
LStrip(s) == IF s # <<>> /\ IsSpace(Head(s)) THEN LStrip(Tail(s)) ELSE s

RECURSIVE RStrip(_)
RStrip(s) ==
  IF s # <<>> /\ IsSpace(s[Len(s)]) THEN RStrip(SubSeq(s, 1, Len(s) - 1)) ELSE s

\* str.strip()
Strip(s) == RStrip(LStrip(s))

\* (x or ""): None and "" are the falsy values
OrEmpty(x) == IF x = None \/ x = <<>> THEN <<>> ELSE x

\* (prefix or "").strip().upper()
Normalize(x) == Upper(Strip(OrEmpty(x)))

\* str.startswith
StartsWith(s, p) == Len(p) <= Len(s) /\ SubSeq(s, 1, Len(p)) = p

\* str.endswith
EndsWith(s, p) ==
  Len(p) <= Len(s) /\ SubSeq(s, Len(s) - Len(p) + 1, Len(s)) = p

\* core = addr[1:].upper()
Core(addr) == Upper(IF addr = <<>> THEN <<>> ELSE Tail(addr))

\* the two tests of the worker loop; TRUE iff neither `continue` is taken
Matches(addr, prefix, suffix) ==
  /\ ~ (prefix # <<>> /\ ~ StartsWith(Core(addr), prefix))
  /\ ~ (suffix # <<>> /\ ~ EndsWith(Core(addr), suffix))

\* an off-by-one limit
TooLongOffByOne(s) == Len(s) >= MAX_CRITERIA_LEN

\* len(prefix) > 8
TooLong(s) == Len(s) > MAX_CRITERIA_LEN

\* cpu_count = max(1, min(4, multiprocessing.cpu_count()))
\* a pool sized by the host alone
CpuCountNoCap(n) == Max(1, n)

CpuCount(n) == Max(1, Min(MAX_WORKERS, n))

\* a loop that counts a candidate twice
CountTryTwice(tries) == tries + 2

\* tries += 1
CountTry(tries) == tries + 1

\* ----------------------------------------------------------- result dict
HasKey(d, k) == k \in DOMAIN d

\* a torn update: a second writer replaces the address only
DictUpdateTorn(d, new) ==
  [k \in (DOMAIN d) \cup (DOMAIN new) |->
     IF k \in DOMAIN new /\ (k \notin DOMAIN d \/ k = "address") THEN new[k] ELSE d[k]]

\* dict.update(new): one call on the manager's dict, every key of new wins
DictUpdate(d, new) ==
  [k \in (DOMAIN d) \cup (DOMAIN new) |-> IF k \in DOMAIN new THEN new[k] ELSE d[k]]

\* the dict a successful worker writes
MatchDict(mode, priv, tries, time) ==
  [address |-> Derive(mode, priv), private_key |-> priv, tries |-> tries + 1,
   time |-> time, mode |-> mode]

\* the outcomes generate_matching returns
RejectedPrefix ==
  [error |-> TRUE, message |-> "Prefix too long (use shorter strings).", tries |-> 0]
RejectedSuffix ==
  [error |-> TRUE, message |-> "Suffix too long (use shorter strings).", tries |-> 0]
\* lines 131-133: the flag could not be written
InternalError ==
  [error |-> TRUE, message |-> "Internal error resetting stop flag.", tries |-> 0]
StoppedDict(max_tries, cpu_count) ==
  [stopped |-> TRUE, tries |-> max_tries * cpu_count * 2, time |-> None]
ExhaustedDict(max_tries, cpu_count) ==
  [error |-> TRUE,
   message |-> "No matching address found. Try a shorter/custom prefix or suffix.",
   tries |-> max_tries * cpu_count * 2]

\* a classification by the flag alone
FinalOutcomeFlagOnly(flag, d, max_tries, cpu_count) ==
  IF flag THEN StoppedDict(max_tries, cpu_count)
  ELSE IF ~ HasKey(d, "address") THEN ExhaustedDict(max_tries, cpu_count)
  ELSE d

\* lines 187-202: what generate_matching returns after the P2SH join
FinalOutcome(flag, d, max_tries, cpu_count) ==
  IF flag /\ ~ HasKey(d, "address") THEN StoppedDict(max_tries, cpu_count)
  ELSE IF ~ HasKey(d, "address") THEN ExhaustedDict(max_tries, cpu_count)
  ELSE d

\* dict.get(k) used as a condition
Truthy(d, k) == HasKey(d, k) /\ d[k] = TRUE

\* ------------------------------------------------------------------ state
\* request slots (threads of the web process or direct callers)
Req == {1, 2}
Modes == {LEGACY, P2SH}

VARIABLES
  STOP_FLAG,    \* utils.STOP_FLAG.value, one per process
  MANAGER,      \* "up": the server process of utils.MANAGER answers; "down":
                \* it does not; "absent": Manager() failed at import (lines
                \* 13-15, STOP_FLAG is a plain Value) and fails when called
                \* again; it does not change during a behaviour
  urandom,      \* what os.urandom(32) yields to generate_private_key: the keys
                \* of `next` in order, and any key of `rest` after them
  host_cpus,    \* multiprocessing.cpu_count()
  pc,           \* position of each generate_matching invocation
  args,         \* the arguments generate_matching was called with
  prefix,       \* local prefix after line 119
  suffix,       \* local suffix after line 120
  cpu_count,    \* local cpu_count (line 150)
  result,       \* the manager.dict() of each invocation
  processes,    \* local list `processes`: the workers of the current phase
  legacy_sum,   \* history: what the Legacy workers did, kept when the list is rebound
  outcome,      \* the value generate_matching returned
  view,         \* position of generate_address
  form,         \* the view's stripped prefix and suffix
  response,     \* the last JsonResponse of generate_address per request, and
                \* of the stop endpoint under StopSlot
  db,           \* VanityAddress rows, in creation order
  stop_hit,     \* history: stop_generation() ran after this search's reset
  reset_hit     \* history: reset_stop() lowered the flag after this search's reset

vars == <<STOP_FLAG, MANAGER, urandom, host_cpus, pc, args, prefix, suffix, cpu_count,
          result, processes, legacy_sum, outcome, view, form, response, db,
          stop_hit, reset_hit>>

\* where the stop endpoint's response is kept
StopSlot == 0

\* JsonResponse({"stopped": True})
StopAck == [status |-> 200, stopped |-> TRUE]

NoArgs == [prefix |-> <<>>, suffix |-> <<>>, max_tries |-> 0]
NoForm == [prefix |-> <<>>, suffix |-> <<>>]
NoSum == [tested |-> 0, cancelled |-> FALSE]

\* the search has passed its first reset and has not returned or raised
InFlight(r) == pc[r] \notin {"idle", "reset", "returned", "raised"}

InitCommon ==
  /\ STOP_FLAG = FALSE
  /\ MANAGER \in {"up", "down", "absent"}
  /\ pc = [r \in Req |-> "idle"]
  /\ args = [r \in Req |-> NoArgs]
  /\ prefix = [r \in Req |-> <<>>]
  /\ suffix = [r \in Req |-> <<>>]
  /\ cpu_count = [r \in Req |-> 0]
  /\ result = [r \in Req |-> EmptyDict]
  /\ processes = [r \in Req |-> <<>>]
  /\ legacy_sum = [r \in Req |-> NoSum]
  /\ outcome = [r \in Req |-> EmptyDict]
  /\ view = [r \in Req |-> "none"]
  /\ form = [r \in Req |-> NoForm]
  /\ response = [r \in Req \cup {StopSlot} |-> EmptyDict]
  /\ db = <<>>
  /\ stop_hit = [r \in Req |-> FALSE]
  /\ reset_hit = [r \in Req |-> FALSE]

\* os.urandom yields any key at any call
AnySource == [next |-> <<>>, rest |-> generate_private_key]

Init == InitCommon /\ host_cpus \in 1..MaxCpu /\ urandom = AnySource

\* ------------------------------------------------------- external controls
\* a stop that flips the flag instead of setting it
SetStopToggle ==
  /\ STOP_FLAG' = IF MANAGER # "down" THEN ~ STOP_FLAG ELSE STOP_FLAG
  /\ stop_hit' = [r \in Req |-> stop_hit[r] \/ (MANAGER # "down" /\ InFlight(r))]
  /\ reset_hit' = reset_hit

\* stop_generation(): STOP_FLAG.value = True; an exception of the manager is
\* swallowed and the flag is not written; a plain Value is always written
SetStop ==
  /\ STOP_FLAG' = IF MANAGER # "down" THEN TRUE ELSE STOP_FLAG
  /\ stop_hit' = [r \in Req |-> stop_hit[r] \/ (MANAGER # "down" /\ InFlight(r))]
  /\ reset_hit' = reset_hit

\* reset_stop(): STOP_FLAG.value = False, exceptions swallowed; the views
\* never call it, any other caller of the module may
reset_stop ==
  /\ STOP_FLAG' = IF MANAGER # "down" THEN FALSE ELSE STOP_FLAG
  /\ reset_hit' = [r \in Req |->
                     reset_hit[r] \/ (MANAGER # "down" /\ STOP_FLAG /\ InFlight(r))]
  /\ UNCHANGED <<MANAGER, urandom, host_cpus, pc, args, prefix, suffix, cpu_count, result,
                 processes, legacy_sum, outcome, view, form, response, db, stop_hit>>

\* stop_generation_view: the stop endpoint
stop_generation_view ==
  /\ SetStop
  /\ response' = [response EXCEPT ![StopSlot] = StopAck]
  /\ UNCHANGED <<MANAGER, urandom, host_cpus, pc, args, prefix, suffix, cpu_count, result,
                 processes, legacy_sum, outcome, view, form, db>>

\* ----------------------------------------------------------- orchestrator
\* lines 111-126: bind the arguments, normalise, validate
Enter(r, p, s, m) ==
  /\ args' = [args EXCEPT ![r] = [prefix |-> p, suffix |-> s, max_tries |-> m]]
  /\ prefix' = [prefix EXCEPT ![r] = Normalize(p)]
  /\ suffix' = [suffix EXCEPT ![r] = Normalize(s)]
  /\ IF TooLong(Normalize(p))
       THEN /\ outcome' = [outcome EXCEPT ![r] = RejectedPrefix]
            /\ pc' = [pc EXCEPT ![r] = "returned"]
     ELSE IF TooLong(Normalize(s))
       THEN /\ outcome' = [outcome EXCEPT ![r] = RejectedSuffix]
            /\ pc' = [pc EXCEPT ![r] = "returned"]
     ELSE /\ outcome' = outcome
          /\ pc' = [pc EXCEPT ![r] = "reset"]

\* a direct call of generate_matching(prefix, suffix, max_tries)
generate_matching(r, p, s, m) ==
  /\ pc[r] = "idle" /\ view[r] = "none"
  /\ Enter(r, p, s, m)
  /\ view' = [view EXCEPT ![r] = "direct"]
  /\ UNCHANGED <<STOP_FLAG, MANAGER, urandom, host_cpus, cpu_count, result, processes,
                 legacy_sum, form, response, db, stop_hit, reset_hit>>

\* lines 128-153: reset the flag, make the result dict, size the pool; with
\* no MANAGER in globals() line 137 calls multiprocessing.Manager(), the
\* handler of lines 138-139 calls it again, and its exception leaves
\* generate_matching after line 130 has lowered the flag
Reset(r) ==
  /\ pc[r] = "reset"
  /\ IF MANAGER = "up"
       THEN /\ STOP_FLAG' = FALSE
            /\ result' = [result EXCEPT ![r] = EmptyDict]
            /\ cpu_count' = [cpu_count EXCEPT ![r] = CpuCount(host_cpus)]
            /\ processes' = [processes EXCEPT ![r] = <<>>]
            /\ stop_hit' = [stop_hit EXCEPT ![r] = FALSE]
            /\ reset_hit' = [reset_hit EXCEPT ![r] = FALSE]
            /\ pc' = [pc EXCEPT ![r] = "spawn_legacy"]
            /\ outcome' = outcome
     ELSE IF MANAGER = "down"
       THEN /\ outcome' = [outcome EXCEPT ![r] = InternalError]
            /\ pc' = [pc EXCEPT ![r] = "returned"]
            /\ UNCHANGED <<STOP_FLAG, result, cpu_count, processes, stop_hit, reset_hit>>
     ELSE /\ STOP_FLAG' = FALSE
          /\ pc' = [pc EXCEPT ![r] = "raised"]
          /\ UNCHANGED <<outcome, result, cpu_count, processes, stop_hit, reset_hit>>
  /\ UNCHANGED <<MANAGER, urandom, host_cpus, args, prefix, suffix, legacy_sum, view,
                 form, response, db>>

\* ctx.Process(target=...) once started: at the top of its loop, tries = 0,
\* priv not yet assigned
NewWorker(mode) == [target |-> mode, st |-> "loop", tries |-> 0, priv |-> ""]

\* one turn of a `for i in range(cpu_count)` loop: append and start a worker
Spawn(r, mode, here, next) ==
  /\ pc[r] = here
  /\ Len(processes[r]) < cpu_count[r]
  /\ processes' = [processes EXCEPT ![r] = Append(@, NewWorker(mode))]
  /\ pc' = [pc EXCEPT ![r] =
              IF Len(processes[r]) + 1 = cpu_count[r] THEN next ELSE here]
  /\ UNCHANGED <<STOP_FLAG, MANAGER, urandom, host_cpus, args, prefix, suffix, cpu_count, result,
                 legacy_sum, outcome, view, form, response, db, stop_hit, reset_hit>>

\* lines 154-160
SpawnLegacy(r) == Spawn(r, LEGACY, "spawn_legacy", "join_legacy")

\* lines 176-182
SpawnP2sh(r) == Spawn(r, P2SH, "spawn_p2sh", "join_p2sh")

Terminated(w) == w.st \in {"cancelled", "succeeded", "exhausted"}

\* for p in processes: p.join()
Joined(r) == \A i \in 1..Len(processes[r]) : Terminated(processes[r][i])

\* lines 162-169: join the Legacy workers, return a match or clear the dict
JoinLegacy(r) ==
  /\ pc[r] = "join_legacy"
  /\ Joined(r)
  /\ IF HasKey(result[r], "address")
       THEN /\ outcome' = [outcome EXCEPT ![r] = result[r]]
            /\ pc' = [pc EXCEPT ![r] = "returned"]
            /\ result' = result
       ELSE /\ result' = [result EXCEPT ![r] = EmptyDict]
            /\ pc' = [pc EXCEPT ![r] = "reset2"]
            /\ outcome' = outcome
  /\ UNCHANGED <<STOP_FLAG, MANAGER, urandom, host_cpus, args, prefix, suffix, cpu_count,
                 processes, legacy_sum, view, form, response, db, stop_hit, reset_hit>>

\* candidates a worker has tested
TestedBy(w) == w.tries + (IF w.st \in {"update", "set_flag", "succeeded"} THEN 1 ELSE 0)

RECURSIVE SumTested(_)
SumTested(ws) == IF ws = <<>> THEN 0 ELSE TestedBy(Head(ws)) + SumTested(Tail(ws))

\* what the workers of a finished phase did
Summary(ws) ==
  [tested |-> SumTested(ws),
   cancelled |-> \E i \in 1..Len(ws) : ws[i].st = "cancelled"]

\* lines 170-175: the flag is reset again and the process list rebound
Reset2(r) ==
  /\ pc[r] = "reset2"
  /\ STOP_FLAG' = FALSE
  /\ legacy_sum' = [legacy_sum EXCEPT ![r] = Summary(processes[r])]
  /\ processes' = [processes EXCEPT ![r] = <<>>]
  /\ pc' = [pc EXCEPT ![r] = "spawn_p2sh"]
  /\ UNCHANGED <<MANAGER, urandom, host_cpus, args, prefix, suffix, cpu_count, result,
                 outcome, view, form, response, db, stop_hit, reset_hit>>

\* lines 184-202: join the P2SH workers and classify
JoinP2sh(r) ==
  /\ pc[r] = "join_p2sh"
  /\ Joined(r)
  /\ outcome' = [outcome EXCEPT ![r] =
       FinalOutcome(STOP_FLAG, result[r], args[r].max_tries, cpu_count[r])]
  /\ pc' = [pc EXCEPT ![r] = "returned"]
  /\ UNCHANGED <<STOP_FLAG, MANAGER, urandom, host_cpus, args, prefix, suffix, cpu_count, result,
                 processes, legacy_sum, view, form, response, db, stop_hit, reset_hit>>

\* ----------------------------------------------------------------- workers
SetWorker(r, i, w) == processes' = [processes EXCEPT ![r][i] = w]

\* generate_private_key(): the keys the next os.urandom(32) can yield, and the
\* source after the call
Draws == IF urandom.next # <<>> THEN {Head(urandom.next)} ELSE urandom.rest
Drawn == [urandom EXCEPT !.next = IF @ = <<>> THEN @ ELSE Tail(@)]

\* a loop that never looks at the flag
WorkerLoopNoFlag(r, i) ==
  LET w == processes[r][i] IN
  /\ w.st = "loop"
  /\ IF ~ (w.tries < args[r].max_tries)
       THEN SetWorker(r, i, [w EXCEPT !.st = "exhausted"]) /\ urandom' = urandom
     ELSE \E priv \in Draws :
            /\ urandom' = Drawn
            /\ IF Matches(Derive(w.target, priv), prefix[r], suffix[r])
                 THEN SetWorker(r, i, [w EXCEPT !.st = "update", !.priv = priv])
                 ELSE SetWorker(r, i, [w EXCEPT !.tries = CountTry(@)])
  /\ UNCHANGED <<STOP_FLAG, MANAGER, host_cpus, pc, args, prefix, suffix, cpu_count,
                 result, legacy_sum, outcome, view, form, response, db, stop_hit, reset_hit>>

\* one turn of the while loop: budget test, flag test, draw, derive, compare
WorkerLoop(r, i) ==
  LET w == processes[r][i] IN
  /\ w.st = "loop"
  /\ IF ~ (w.tries < args[r].max_tries)
       THEN SetWorker(r, i, [w EXCEPT !.st = "exhausted"]) /\ urandom' = urandom
     ELSE IF STOP_FLAG
       THEN SetWorker(r, i, [w EXCEPT !.st = "cancelled"]) /\ urandom' = urandom
     ELSE \E priv \in Draws :
            /\ urandom' = Drawn
            /\ IF Matches(Derive(w.target, priv), prefix[r], suffix[r])
                 THEN SetWorker(r, i, [w EXCEPT !.st = "update", !.priv = priv])
                 ELSE SetWorker(r, i, [w EXCEPT !.tries = CountTry(@)])
  /\ UNCHANGED <<STOP_FLAG, MANAGER, host_cpus, pc, args, prefix, suffix, cpu_count,
                 result, legacy_sum, outcome, view, form, response, db, stop_hit, reset_hit>>

\* return_dict.update({...})
WorkerUpdate(r, i) ==
  LET w == processes[r][i] IN
  /\ w.st = "update"
  /\ \E us \in Clock : \E time \in Elapsed(us) :
       result' = [result EXCEPT ![r] =
                    DictUpdate(@, MatchDict(w.target, w.priv, w.tries, time))]
  /\ SetWorker(r, i, [w EXCEPT !.st = "set_flag"])
  /\ UNCHANGED <<STOP_FLAG, MANAGER, urandom, host_cpus, pc, args, prefix, suffix, cpu_count,
                 legacy_sum, outcome, view, form, response, db, stop_hit, reset_hit>>

\* stop_flag.value = True; return
WorkerSetFlag(r, i) ==
  LET w == processes[r][i] IN
  /\ w.st = "set_flag"
  /\ STOP_FLAG' = TRUE
  /\ SetWorker(r, i, [w EXCEPT !.st = "succeeded"])
  /\ UNCHANGED <<MANAGER, urandom, host_cpus, pc, args, prefix, suffix, cpu_count, result,
                 legacy_sum, outcome, view, form, response, db, stop_hit, reset_hit>>

Worker(r, i) ==
  \/ WorkerLoop(r, i)
  \/ WorkerUpdate(r, i)
  \/ WorkerSetFlag(r, i)

worker_legacy(r) ==
  \E i \in 1..Len(processes[r]) : processes[r][i].target = LEGACY /\ Worker(r, i)

worker_p2sh(r) ==
  \E i \in 1..Len(processes[r]) : processes[r][i].target = P2SH /\ Worker(r, i)

\* ------------------------------------------------------------------- views
\* form.errors of a form that is not valid
FormErrors ==
  { [prefix |-> <<"Enter a valid value.">>],
    [suffix |-> <<"Enter a valid value.">>] }

\* the prefix generate_address passes for a form prefix (views.py:52)
FinalPrefix(p) == IF Strip(OrEmpty(p)) # <<>> THEN Strip(OrEmpty(p)) ELSE <<"1">>

\* generate_address, lines 24-59: up to the call of generate_matching
generate_address(r, method, errors, p, s) ==
  /\ pc[r] = "idle" /\ view[r] = "none"
  /\ SetStop
  /\ IF method # "POST"
       THEN /\ response' = [response EXCEPT ![r] =
                              [status |-> 400, error |-> "POST required"]]
            /\ view' = [view EXCEPT ![r] = "responded"]
            /\ UNCHANGED <<pc, args, prefix, suffix, outcome, form>>
     ELSE IF errors # EmptyDict
       THEN /\ response' = [response EXCEPT ![r] =
                              [status |-> 400, error |-> "Invalid input",
                               errors |-> errors]]
            /\ view' = [view EXCEPT ![r] = "responded"]
            /\ UNCHANGED <<pc, args, prefix, suffix, outcome, form>>
     ELSE /\ form' = [form EXCEPT ![r] =
                        [prefix |-> Strip(OrEmpty(p)), suffix |-> Strip(OrEmpty(s))]]
          /\ Enter(r, FinalPrefix(p), Strip(OrEmpty(s)), VIEW_MAX_TRIES)
          /\ view' = [view EXCEPT ![r] = "in_call"]
          /\ response' = response
  /\ UNCHANGED <<MANAGER, urandom, host_cpus, cpu_count, result, processes, legacy_sum, db>>

\* the row VanityAddress.objects.create(...) stores
Row(r) ==
  [address |-> outcome[r].address, private_key |-> outcome[r].private_key,
   prefix |-> form[r].prefix, suffix |-> form[r].suffix]

\* a view that stores the row of a Found outcome twice
ViewRespondTwice(r) ==
  /\ view[r] = "in_call"
  /\ pc[r] = "returned"
  /\ view' = [view EXCEPT ![r] = "responded"]
  /\ IF Truthy(outcome[r], "stopped") \/ Truthy(outcome[r], "error")
       THEN /\ response' = [response EXCEPT ![r] =
                 [status |-> IF Truthy(outcome[r], "stopped") THEN 200 ELSE 400,
                  tries |-> outcome[r].tries]]
            /\ db' = db
       ELSE /\ db' = Append(Append(db, Row(r)), Row(r))
            /\ response' = [response EXCEPT ![r] =
                 [status |-> 200, address |-> outcome[r].address,
                  private_key |-> outcome[r].private_key,
                  tries |-> outcome[r].tries, time |-> outcome[r].time]]
  /\ UNCHANGED <<STOP_FLAG, MANAGER, urandom, host_cpus, pc, args, prefix, suffix, cpu_count,
                 result, processes, legacy_sum, outcome, form, stop_hit, reset_hit>>

\* generate_address, lines 61-97: turn the outcome into a response
ViewRespond(r) ==
  /\ view[r] = "in_call"
  /\ pc[r] = "returned"
  /\ view' = [view EXCEPT ![r] = "responded"]
  /\ IF Truthy(outcome[r], "stopped")
       THEN /\ response' = [response EXCEPT ![r] =
                 [status |-> 200, stopped |-> TRUE, tries |-> outcome[r].tries,
                  time |-> outcome[r].time]]
            /\ db' = db
     ELSE IF Truthy(outcome[r], "error")
       THEN /\ response' = [response EXCEPT ![r] =
                 [status |-> 400, error |-> outcome[r].message,
                  tries |-> outcome[r].tries]]
            /\ db' = db
     ELSE /\ db' = Append(db, [address |-> outcome[r].address,
                               private_key |-> outcome[r].private_key,
                               prefix |-> form[r].prefix,
                               suffix |-> form[r].suffix])
          /\ response' = [response EXCEPT ![r] =
                 [status |-> 200, address |-> outcome[r].address,
                  private_key |-> outcome[r].private_key,
                  tries |-> outcome[r].tries, time |-> outcome[r].time]]
  /\ UNCHANGED <<STOP_FLAG, MANAGER, urandom, host_cpus, pc, args, prefix, suffix, cpu_count,
                 result, processes, legacy_sum, outcome, form, stop_hit, reset_hit>>

\* generate_address, line 55: an exception of generate_matching is not caught
\* and leaves the view; no JsonResponse is made and no row is created
ViewRaise(r) ==
  /\ view[r] = "in_call"
  /\ pc[r] = "raised"
  /\ view' = [view EXCEPT ![r] = "raised"]
  /\ UNCHANGED <<STOP_FLAG, MANAGER, urandom, host_cpus, pc, args, prefix, suffix, cpu_count,
                 result, processes, legacy_sum, outcome, form, response, db,
                 stop_hit, reset_hit>>

\* ------------------------------------------------------------------ inputs
\* (prefix, suffix) pairs a direct caller passes
Criteria ==
  { << <<>>, <<>> >>,
    << <<" ","e","y"," ">>, <<"k">> >>,
    << <<"Z","Z">>, <<>> >>,
    << <<"e","h","n","a","6","q","4","j">>, None >>,
    << <<"E","H","N","A","6","Q","4","J","Z">>, <<>> >>,
    << <<>>, <<"A","B","C","D","E","F","G","H","I">> >>,
    << <<"U+00DF","U+00DF","U+00DF","U+00DF","U+00DF">>, <<>> >> }
\* criteria posted to the endpoint
FormPrefixes == { <<>>, <<"1","h">>, <<"E","H","N","A","6","Q","4","J","Z">> }
FormSuffixes == { <<>> }
Methods == {"GET", "POST"}

\* ----------------------------------------------------------- specification
\* the steps of one search: its orchestrator and its workers
Search(r) ==
  \/ Reset(r)
  \/ SpawnLegacy(r)
  \/ worker_legacy(r)
  \/ JoinLegacy(r)
  \/ Reset2(r)
  \/ SpawnP2sh(r)
  \/ worker_p2sh(r)
  \/ JoinP2sh(r)

\* the steps of a request: its search and the view's answer
Step(r) == Search(r) \/ ViewRespond(r) \/ ViewRaise(r)

\* the max_tries a direct caller passes with a pair
Budgets(c) ==
  IF c = << <<" ","e","y"," ">>, <<"k">> >> THEN {1}
  ELSE IF c = << <<"e","h","n","a","6","q","4","j">>, None >> THEN {MaxTries}
  ELSE 0..MaxTries

Call(r) ==
  \E c \in Criteria : \E m \in Budgets(c) : generate_matching(r, c[1], c[2], m)

\* callers of vanity.utils: one search at a time, stop requests and
\* reset_stop() at any time
Next ==
  \/ Call(1)
  \/ Search(1)
  \/ stop_generation_view
  \/ reset_stop

Spec == Init /\ [][Next]_vars

\* the web application: one generate request and the stop endpoint; no view
\* calls reset_stop()
Post(r) ==
  \E method \in Methods, errors \in FormErrors \cup {EmptyDict},
     p \in FormPrefixes, s \in FormSuffixes :
    generate_address(r, method, errors, p, s)

\* the keys os.urandom yields while the endpoint is served: any sequence of
\* at most MaxDraws keys, and after it the key whose addresses match the
\* view's default prefix in both encodings
Streams == UNION {[1..n -> generate_private_key] : n \in 0..MaxDraws}
BoundedSources == {[next |-> keys, rest |-> {K411}] : keys \in Streams}

InitView == InitCommon /\ host_cpus \in 1..MaxCpu /\ urandom \in BoundedSources

NextView ==
  \/ Post(1)
  \/ Step(1)
  \/ stop_generation_view

SpecView == InitView /\ [][NextView]_vars

\* direct calls only, under fair scheduling of the orchestrator and the
\* workers; stop requests arrive at any time and are not fair
FairCriteria ==
  { << <<>>, <<>> >>, << <<"Z","Z">>, <<>> >> }

FairNext ==
  \/ \E c \in FairCriteria, m \in {0, MaxTries} : generate_matching(1, c[1], c[2], m)
  \/ Search(1)
  \/ stop_generation_view

FairSpec == Init /\ [][FairNext]_vars /\ WF_vars(Search(1))

\* request 1 was posted with form prefix p on a one-cpu host, its Legacy
\* worker has used up the budget and its P2SH worker is at the last
\* candidate of the budget: no stop request was made and every key drawn so
\* far was a miss
LateSearch(p) ==
  /\ STOP_FLAG = FALSE
  /\ MANAGER = "up"
  /\ pc = [r \in Req |-> IF r = 1 THEN "join_p2sh" ELSE "idle"]
  /\ args = [r \in Req |->
              IF r = 1 THEN [prefix |-> FinalPrefix(p), suffix |-> <<>>,
                             max_tries |-> VIEW_MAX_TRIES]
              ELSE NoArgs]
  /\ prefix = [r \in Req |-> IF r = 1 THEN Normalize(FinalPrefix(p)) ELSE <<>>]
  /\ suffix = [r \in Req |-> <<>>]
  /\ cpu_count = [r \in Req |-> IF r = 1 THEN CpuCount(1) ELSE 0]
  /\ result = [r \in Req |-> EmptyDict]
  /\ processes = [r \in Req |->
                   IF r = 1 THEN << [NewWorker(P2SH) EXCEPT !.tries = VIEW_MAX_TRIES - 1] >>
                   ELSE <<>>]
  /\ legacy_sum = [r \in Req |->
                    IF r = 1 THEN [tested |-> VIEW_MAX_TRIES, cancelled |-> FALSE]
                    ELSE NoSum]
  /\ outcome = [r \in Req |-> EmptyDict]
  /\ view = [r \in Req |-> IF r = 1 THEN "in_call" ELSE "none"]
  /\ form = [r \in Req |->
              IF r = 1 THEN [prefix |-> Strip(OrEmpty(p)), suffix |-> <<>>] ELSE NoForm]
  /\ response = [r \in Req \cup {StopSlot} |-> EmptyDict]
  /\ db = <<>>
  /\ stop_hit = [r \in Req |-> FALSE]
  /\ reset_hit = [r \in Req |-> FALSE]

\* two concurrent requests on a one-cpu host
InitTwo == InitCommon /\ host_cpus = 1 /\ urandom \in BoundedSources

CallTwo(r) ==
  \/ \E p \in {<<>>, <<"Z","Z">>} : generate_matching(r, p, <<>>, 1)
  \/ \E method \in Methods, errors \in FormErrors \cup {EmptyDict},
        p \in {<<>>, <<"E","H","N","A","6","Q","4","J","Z">>} :
       generate_address(r, method, errors, p, <<>>)

NextTwo ==
  \/ \E r \in Req : CallTwo(r)
  \/ \E r \in Req : Step(r)
  \/ stop_generation_view

SpecTwo == InitTwo /\ [][NextTwo]_vars

\* the same two requests, from the start of the program or from a search
\* that is at the end of the view's budget
InitPersist ==
  /\ host_cpus = 1
  /\ urandom \in BoundedSources
  /\ InitCommon \/ LateSearch(<<>>)

SpecPersist == InitPersist /\ [][NextTwo]_vars

\* one search on hosts with more cpus than the pool may use
MaxHostCpus == 5
PoolBudget == 1

InitPool == InitCommon /\ host_cpus \in 1..MaxHostCpus /\ urandom = AnySource

NextPool ==
  \/ \E c \in FairCriteria : generate_matching(1, c[1], c[2], PoolBudget)
  \/ Search(1)
  \/ stop_generation_view

SpecPool == InitPool /\ [][NextPool]_vars

\* ------------------------------------------------------------- vocabulary
Returned(r) == pc[r] = "returned"
IsFound(o) == HasKey(o, "address")
IsStopped(o) == Truthy(o, "stopped")
IsError(o) == Truthy(o, "error")
IsExhausted(o) ==
  IsError(o) /\ o.message = "No matching address found. Try a shorter/custom prefix or suffix."
IsRejected(o) == o \in {RejectedPrefix, RejectedSuffix}

Workers(r, mode) == {i \in 1..Len(processes[r]) : processes[r][i].target = mode}
\* the worker has executed return_dict.update
Wrote(w) == w.st \in {"set_flag", "succeeded"}
AnyWrote(r) == \E i \in 1..Len(processes[r]) : Wrote(processes[r][i])

\* candidates tested over both phases
Tested(r) == legacy_sum[r].tested + SumTested(processes[r])

\* ------------------------------------------------------------------ claims

\* C1: when stop_generation() ran after the initial reset (and no caller
\* withdrew it with reset_stop()) and no worker ever wrote a match,
\* generate_matching returns the Stopped outcome (it neither goes on to
\* exhaust the P2SH phase nor returns anything else).
C1_StopYieldsStopped ==
  (Returned(1) /\ stop_hit[1] /\ ~ reset_hit[1] /\ ~ AnyWrote(1)) =>
    IsStopped(outcome[1])

\* the keys of a Found result
FoundKeys == {"address", "private_key", "tries", "time", "mode"}

\* C2: a Found result is exactly one worker's write: address, private_key,
\* tries and mode are those of one matching candidate of one worker, and the
\* address without its first character, uppercased, starts with the
\* uppercased prefix and ends with the uppercased suffix.
C2_OneWholeSuccess ==
  \A r \in Req :
    (Returned(r) /\ IsFound(outcome[r])) =>
      /\ DOMAIN outcome[r] = FoundKeys
      /\ \E mode \in Modes : \E i \in Workers(r, mode) :
           LET w == processes[r][i] IN
           /\ Wrote(w)
           /\ outcome[r].mode = mode
           /\ outcome[r].private_key = w.priv
           /\ outcome[r].tries = w.tries + 1
           /\ outcome[r].address = Derive(mode, w.priv)
      /\ StartsWith(Upper(Tail(outcome[r].address)), Upper(Strip(OrEmpty(args[r].prefix))))
      /\ EndsWith(Upper(Tail(outcome[r].address)), Upper(Strip(OrEmpty(args[r].suffix))))

\* C2 witness: two workers of one phase both wrote, with different keys, and
\* the search returned Found
C2_Witness ==
  /\ Returned(1) /\ IsFound(outcome[1])
  /\ \E mode \in Modes : \E i, j \in Workers(1, mode) :
       /\ i # j
       /\ Wrote(processes[1][i]) /\ Wrote(processes[1][j])
       /\ processes[1][i].priv # processes[1][j].priv

\* C3: once a worker has written a match, generate_matching returns Found,
\* whatever set the flag; Stopped is returned only with no address in the
\* result slot.
C3_FoundBeatsStopped ==
  \A r \in Req :
    Returned(r) =>
      /\ AnyWrote(r) => IsFound(outcome[r])
      /\ IsStopped(outcome[r]) => ~ HasKey(result[r], "address")

\* C3 witness: a P2SH worker wrote its match, the stop endpoint was also
\* called during the search, and the search has returned
C3_Witness ==
  /\ Returned(1) /\ stop_hit[1] /\ STOP_FLAG
  /\ \E i \in Workers(1, P2SH) : Wrote(processes[1][i])

\* a step of search q or of one of its workers
StepOf(q) ==
  \/ pc'[q] # pc[q]
  \/ view'[q] # view[q]
  \/ processes'[q] # processes[q]

\* C4: two concurrent searches have independent flags: while a search is in
\* flight, no step of the other request (its start, its resets, its workers'
\* successes) changes the flag the first search's workers read.
C4_NoCrossTalk ==
  [][\A r, q \in Req :
       (r # q /\ InFlight(r) /\ StepOf(q)) => STOP_FLAG' = STOP_FLAG]_vars

\* C5: Exhausted is returned only when every worker of both phases used up
\* its budget; never in a run where a worker left on seeing the flag
\* (searches during which reset_stop() was called are left aside).
C5_ExhaustedMeansAllExhausted ==
  \A r \in Req :
    (Returned(r) /\ IsExhausted(outcome[r]) /\ ~ reset_hit[r]) =>
      /\ ~ legacy_sum[r].cancelled
      /\ legacy_sum[r].tested = cpu_count[r] * args[r].max_tries
      /\ Cardinality(Workers(r, P2SH)) = cpu_count[r]
      /\ \A i \in Workers(r, P2SH) :
           /\ processes[r][i].st = "exhausted"
           /\ processes[r][i].tries = args[r].max_tries

\* every Legacy worker saw the flag set before it tested a candidate
StoppedAtStart(r) ==
  /\ args[r].max_tries >= 1
  /\ legacy_sum[r].cancelled
  /\ legacy_sum[r].tested = 0

\* C6: when the flag is set before any worker completes an iteration (and
\* no caller lowers it with reset_stop()), the search returns Stopped and
\* reports no more tries than candidates tested.
C6_EarlyStop ==
  \A r \in Req :
    (Returned(r) /\ StoppedAtStart(r) /\ ~ reset_hit[r]) =>
      /\ IsStopped(outcome[r])
      /\ outcome[r].tries <= Tested(r)

\* C7: a direct call whose trimmed, uppercased prefix or suffix has 9 or more
\* characters returns Rejected with tries 0 at once and leaves the flag, the
\* result slots and the workers untouched; with both at most 8 characters
\* the call is accepted and the search proceeds to its reset.
C7_ValidationBoundary ==
  [][\A r \in Req :
       (view[r] = "none" /\ view'[r] = "direct") =>
         IF \/ Len(Upper(Strip(OrEmpty(args'[r].prefix)))) >= 9
            \/ Len(Upper(Strip(OrEmpty(args'[r].suffix)))) >= 9
           THEN /\ pc'[r] = "returned"
                /\ IsError(outcome'[r]) /\ outcome'[r].tries = 0
                /\ ~ IsFound(outcome'[r]) /\ ~ IsStopped(outcome'[r])
                /\ STOP_FLAG' = STOP_FLAG
                /\ result' = result
                /\ processes' = processes
           ELSE /\ pc'[r] = "reset"
                /\ outcome'[r] = outcome[r]]_vars

\* C7 witness: a call with a 9-character prefix was rejected while a stop was
\* pending, and the flag is still set
C7_Witness ==
  /\ Returned(1) /\ view[1] = "direct"
  /\ Len(args[1].prefix) = 9
  /\ IsRejected(outcome[1])
  /\ STOP_FLAG
  /\ processes[1] = <<>>

\* one structured outcome: Found, Stopped or error, and only one of them
Structured(o) ==
  \/ /\ DOMAIN o = FoundKeys
  \/ /\ DOMAIN o = {"stopped", "tries", "time"}
     /\ o.stopped = TRUE
  \/ /\ DOMAIN o = {"error", "message", "tries"}
     /\ o.error = TRUE

\* C8: under fair scheduling every started invocation returns, whatever the
\* stop requests, and what it returns is one structured outcome (an
\* invocation that raises does not return).
C8_ReturnsStructured ==
  /\ [](pc[1] # "idle" => <>Returned(1))
  /\ [](Returned(1) => Structured(outcome[1]))

\* C9: first writer wins: once the result slot holds a match, no later
\* write replaces it (in a search during which reset_stop() was not called).
C9_FirstWriterWins ==
  [][\A r \in Req :
       (HasKey(result[r], "address") /\ ~ reset_hit'[r]) => result'[r] = result[r]]_vars

\* the user gave neither prefix nor suffix, the search has a budget and the
\* manager answers
EmptyCriteria(r) ==
  /\ MANAGER = "up"
  /\ args[r].max_tries >= 1
  /\ \/ /\ view[r] = "direct"
        /\ OrEmpty(args[r].prefix) = <<>> /\ OrEmpty(args[r].suffix) = <<>>
     \/ /\ view[r] \in {"in_call", "responded"} /\ pc[r] # "idle"
        /\ form[r].prefix = <<>> /\ form[r].suffix = <<>>

\* C10: with no prefix and no suffix every candidate matches: no worker ever
\* counts a non-match, and an unstopped search returns Found with tries = 1
\* on the Legacy encoding, for a direct call and through generate_address.
C10_EmptyCriteriaMatchAll ==
  \A r \in Req :
    EmptyCriteria(r) =>
      /\ \A mode \in Modes : \A i \in Workers(r, mode) : processes[r][i].tries = 0
      /\ (Returned(r) /\ ~ stop_hit[r]) =>
           /\ IsFound(outcome[r])
           /\ outcome[r].tries = 1
           /\ outcome[r].mode = LEGACY

\* requests whose generate_address call got a Found outcome and has responded
FoundResponded ==
  {r \in Req : view[r] = "responded" /\ Returned(r) /\ IsFound(outcome[r])}

\* C11: the database holds exactly one row per Found outcome that
\* generate_address has handled, with that outcome's address and private
\* key, and no row for any other outcome, for a refused request, for a direct
\* generate_matching call or while a search is still running.
C11_PersistOncePerFound ==
  /\ Len(db) = Cardinality(FoundResponded)
  /\ \A r \in FoundResponded :
       \E i \in 1..Len(db) :
         /\ db[i].address = outcome[r].address
         /\ db[i].private_key = outcome[r].private_key
  /\ \A r \in Req :
       (view[r] = "responded" /\ r \notin FoundResponded) =>
         response[r].status = 400 \/ Truthy(response[r], "stopped")

\* C11 witness: the endpoint has answered an Exhausted outcome of one request
\* with status 400 and a Found outcome of the other with its row, the only row
C11_Witness ==
  /\ view[1] = "responded" /\ IsExhausted(outcome[1])
  /\ response[1].status = 400
  /\ view[2] = "responded" /\ IsFound(outcome[2])
  /\ response[2].status = 200
  /\ Len(db) = 1 /\ db[1].address = outcome[2].address

\* the program's state apart from the flag, the responses and the history
RestVars ==
  <<MANAGER, urandom, host_cpus, pc, args, prefix, suffix, cpu_count, result, processes, outcome,
    view, form, db>>

\* a step of the stop endpoint: it answers, or the flag rises with no request
\* and no worker moving
StopStep ==
  \/ response'[StopSlot] # response[StopSlot]
  \/ /\ ~ STOP_FLAG /\ STOP_FLAG'
     /\ pc' = pc /\ view' = view /\ processes' = processes

\* C12: the stop request can always be made, answers {"stopped": True}, sets
\* the flag (leaves it alone when the manager does not answer) and changes
\* nothing else; made when the flag is already true it leaves the program
\* state as it is, and made right after another stop request it changes
\* nothing at all.
C12_StopIdempotent ==
  /\ [](ENABLED stop_generation_view)
  /\ [](STOP_FLAG =>
          ~ ENABLED (stop_generation_view /\ <<STOP_FLAG, RestVars>>' # <<STOP_FLAG, RestVars>>))
  /\ []((STOP_FLAG /\ response[StopSlot] = StopAck) =>
          ~ ENABLED (stop_generation_view
                     /\ <<STOP_FLAG, RestVars, response>>' # <<STOP_FLAG, RestVars, response>>))
  /\ [][StopStep =>
          /\ STOP_FLAG' = (MANAGER # "down" \/ STOP_FLAG)
          /\ response'[StopSlot] = StopAck
          /\ \A r \in Req : response'[r] = response[r]
          /\ RestVars' = RestVars]_vars

\* C12 witness: the stop endpoint has answered while a search is in flight
C12_Witness ==
  /\ STOP_FLAG /\ response[StopSlot] = StopAck
  /\ InFlight(1) /\ stop_hit[1]

\* C13: the steps of a search lower the flag from true to false only at the
\* reset that starts the search, before the first worker is launched.
C13_LevelTriggered ==
  [][(STOP_FLAG /\ ~ STOP_FLAG' /\ pc' # pc) =>
       \E r \in Req : pc[r] = "reset" /\ pc'[r] \in {"spawn_legacy", "raised"}]_vars

\* worker i of search r exists before and after the step and has moved
Moved(r, i) ==
  /\ i <= Len(processes[r]) /\ i <= Len(processes'[r])
  /\ processes'[r][i] # processes[r][i]

\* C14: a worker at the top of its loop that finds the flag set terminates
\* there: it draws no key, keeps its tries and writes neither the result
\* slot nor the flag; so while the flag is true no worker tests a new
\* candidate, whether the flag was set by a stop request or by a sibling.
C14_CancelAtBoundary ==
  [][\A r \in Req : \A i \in 1..Len(processes[r]) :
       (Moved(r, i) /\ STOP_FLAG) =>
         /\ TestedBy(processes'[r][i]) = TestedBy(processes[r][i])
         /\ processes[r][i].st = "loop" =>
              /\ processes'[r][i].st = IF processes[r][i].tries < args[r].max_tries
                                         THEN "cancelled" ELSE "exhausted"
              /\ processes'[r][i].tries = processes[r][i].tries
              /\ processes'[r][i].priv = processes[r][i].priv
              /\ result' = result
              /\ STOP_FLAG' = STOP_FLAG]_vars

\* C14 witness: a worker that had counted a candidate was halted by the
\* success of a sibling
C14_Witness ==
  \E i, j \in 1..Len(processes[1]) :
    /\ processes[1][i].st = "cancelled" /\ processes[1][i].tries > 0
    /\ processes[1][j].st = "succeeded"
    /\ ~ stop_hit[1]

\* some key's address fails the criteria of search r
SomeNonMatch(r, mode) ==
  \E k \in generate_private_key : ~ Matches(Derive(mode, k), prefix[r], suffix[r])

\* C15: every worker keeps 0 <= tries <= max_tries and tests at most
\* max_tries candidates; tries grows by exactly one, and only when a
\* candidate failed the criteria; a terminated worker is BudgetExhausted
\* exactly when its tries equal max_tries; the result slot is written only by
\* a worker whose candidate matched, with tries + 1.
C15_WorkerBudget ==
  /\ [](\A r \in Req :
          /\ \A i \in 1..Len(processes[r]) :
               LET w == processes[r][i] IN
               /\ 0 <= w.tries /\ w.tries <= args[r].max_tries
               /\ TestedBy(w) <= args[r].max_tries
               /\ (w.st = "exhausted") <=> (Terminated(w) /\ w.tries = args[r].max_tries)
               /\ Wrote(w) => HasKey(result[r], "address")
          /\ HasKey(result[r], "address") =>
               \E i \in 1..Len(processes[r]) :
                 LET w == processes[r][i] IN
                 /\ Wrote(w)
                 /\ result[r].tries = w.tries + 1
                 /\ result[r].private_key = w.priv
                 /\ Matches(result[r].address, Upper(Strip(OrEmpty(args[r].prefix))),
                            Upper(Strip(OrEmpty(args[r].suffix)))))
  /\ [][\A r \in Req :
          /\ \A i \in 1..Len(processes[r]) :
               (Moved(r, i) /\ processes'[r][i].tries # processes[r][i].tries) =>
                 /\ processes[r][i].st = "loop" /\ processes'[r][i].st = "loop"
                 /\ processes'[r][i].tries = processes[r][i].tries + 1
                 /\ SomeNonMatch(r, processes[r][i].target)
                 /\ result' = result
          /\ (result'[r] # result[r] /\ HasKey(result'[r], "address")) =>
               \E i \in 1..Len(processes[r]) :
                 /\ Moved(r, i)
                 /\ processes[r][i].st = "update"
                 /\ result'[r].tries = processes[r][i].tries + 1]_vars

\* C15 witness: a worker matched on its second candidate and wrote tries + 1
C15_Witness ==
  \E i \in 1..Len(processes[1]) :
    /\ Wrote(processes[1][i])
    /\ processes[1][i].tries >= 1
    /\ result[1].tries = processes[1][i].tries + 1

\* C16: the workers of a search are all of one encoding, Legacy first and
\* P2SH only after the Legacy workers have all terminated and left no
\* address; never more than min(host cpus, 4) workers exist; the worker list
\* is replaced and the search returns only when every worker has terminated;
\* a search whose Legacy workers wrote returns Found with mode Legacy.
C16_PhaseOrder ==
  /\ [](\A r \in Req :
          /\ Workers(r, LEGACY) = {} \/ Workers(r, P2SH) = {}
          /\ Workers(r, LEGACY) # {} =>
               pc[r] \in {"spawn_legacy", "join_legacy", "reset2", "returned"}
          /\ Workers(r, P2SH) # {} =>
               pc[r] \in {"spawn_p2sh", "join_p2sh", "returned"}
          /\ (\E i \in Workers(r, LEGACY) : Wrote(processes[r][i])) =>
               pc[r] \in {"spawn_legacy", "join_legacy", "returned"}
          /\ Len(processes[r]) <= Min(host_cpus, 4)
          /\ Returned(r) => Joined(r)
          /\ (Returned(r) /\ \E i \in Workers(r, LEGACY) : Wrote(processes[r][i])) =>
               IsFound(outcome[r]) /\ outcome[r].mode = LEGACY)
  /\ [][\A r \in Req :
          /\ (processes[r] # <<>> /\ processes'[r] = <<>>) => Joined(r)
          /\ (Workers(r, P2SH)' # {} /\ Workers(r, P2SH) = {}) =>
               /\ pc[r] = "spawn_p2sh"
               /\ processes[r] = <<>>
               /\ ~ HasKey(result[r], "address")]_vars

\* C16 witness: on a host with more than four cpus the four P2SH workers run
\* after four Legacy workers each tested a candidate in vain
C16_Witness ==
  /\ host_cpus > 4
  /\ pc[1] = "join_p2sh"
  /\ Cardinality(Workers(1, P2SH)) = 4
  /\ legacy_sum[1].tested >= 4

\* C17: the tries of an Exhausted outcome equal the number of candidates
\* the workers of both phases tested.
C17_ExhaustedTriesAreTested ==
  \A r \in Req :
    (Returned(r) /\ IsExhausted(outcome[r]) /\ ~ reset_hit[r]) =>
      outcome[r].tries = Tested(r)

\* C18: handling a generate request leaves the flag false, whether or not
\* the request starts a search.
C18_GenerateResetsFlag ==
  [][\A r \in Req :
       (view[r] = "none" /\ view'[r] \in {"in_call", "responded"}) =>
         ~ STOP_FLAG']_vars

====
